---- MODULE Spec2Model ----
(***************************************************************************)
(* Model of the STEP batch parser (src/batch_step_parser.py) and of the    *)
(* identifier allocator of the AAS writer (src/batch_aas_from_stp.py).     *)
(*                                                                         *)
(* Text is a sequence of one-character strings; a character outside ASCII  *)
(* is written as its code point ("U+00DF" is the sharp s).  A Python dict  *)
(* is a sequence of <<key, value>> pairs with distinct keys, in insertion  *)
(* order.  A document is the output of the regular expressions of          *)
(* BatchStepParser.__init__: one sequence of statements per entity kind.   *)
(***************************************************************************)
EXTENDS Integers, Sequences, FiniteSets, TLC

VARIABLES
    fs,                     \* the input directory: sequence of [name, doc]
    main_assembly_file,     \* "none" | "missing" | "present" (then fs[1])
    step_files,             \* find_step_files(): indices of fs in discovery order
    enable_annotation_fallback,
    extract_root_geometry,
    all_components,         \* sequence of ComponentNode records, by synthetic index
    assembly_relationships, \* sequence of [parent_product_id, child_product_id]
    standard_parts,         \* set of synthetic indices
    component_name_index,   \* dict: normalized name -> synthetic index
    processed_files,
    annotation_files,       \* parser-level list of supplemented files
    assembly_tree,          \* NoNode | VirtualRoot | synthetic index
    virtual_children,       \* children of the virtual root node
    pc,                     \* position inside parse_batch / of the client
    lastOp,                 \* the last operation performed and its arguments
    passed,                 \* files already handed to the supplementer
    extra_calls,            \* supplementer calls made after parse_batch
    used_ids,               \* BatchAASFromSTP.used_ids
    calls,                  \* results of the get_unique_id calls so far
    emitted                 \* the collections of the written submodel

vars == <<fs, main_assembly_file, step_files, enable_annotation_fallback,
          extract_root_geometry, all_components, assembly_relationships, standard_parts,
          component_name_index, processed_files, annotation_files,
          assembly_tree, virtual_children, pc, lastOp, passed, extra_calls,
          used_ids, calls, emitted>>

parserVars == <<all_components, assembly_relationships, standard_parts,
                component_name_index, processed_files, annotation_files,
                assembly_tree, virtual_children>>
inputVars == <<fs, main_assembly_file, step_files, enable_annotation_fallback,
               extract_root_geometry>>
allocVars == <<used_ids, calls>>

----------------------------------------------------------------------------
(* Sequences and dicts *)

Range(s) == {s[i] : i \in 1..Len(s)}

RECURSIVE Concat(_)
Concat(ss) == IF ss = <<>> THEN <<>> ELSE Head(ss) \o Concat(Tail(ss))

\* Python: joiner.join(parts)
RECURSIVE Join(_, _)
Join(joiner, parts) ==
    IF parts = <<>> THEN <<>>
    ELSE IF Len(parts) = 1 THEN parts[1]
    ELSE parts[1] \o joiner \o Join(joiner, Tail(parts))

DictHas(d, k) == \E i \in 1..Len(d) : d[i][1] = k
DictGet(d, k) == d[CHOOSE i \in 1..Len(d) : d[i][1] = k][2]
\* d[k] = v: an existing key keeps its position, a new key goes last
DictPut(d, k, v) ==
    IF DictHas(d, k)
    THEN [i \in 1..Len(d) |-> IF d[i][1] = k THEN <<k, v>> ELSE d[i]]
    ELSE Append(d, <<k, v>>)
RECURSIVE DictFromPairs(_)
DictFromPairs(pairs) ==
    IF pairs = <<>> THEN <<>>
    ELSE LET n == Len(pairs)
         IN DictPut(DictFromPairs(SubSeq(pairs, 1, n - 1)), pairs[n][1], pairs[n][2])

\* x in s, and the number of times x occurs in s
InSeq(x, s) == \E i \in 1..Len(s) : s[i] = x
Count(x, s) == Cardinality({i \in 1..Len(s) : s[i] = x})

----------------------------------------------------------------------------
(* Text *)

UpperAZ == <<"A","B","C","D","E","F","G","H","I","J","K","L","M",
             "N","O","P","Q","R","S","T","U","V","W","X","Y","Z">>
LowerAZ == <<"a","b","c","d","e","f","g","h","i","j","k","l","m",
             "n","o","p","q","r","s","t","u","v","w","x","y","z">>
Digits == <<"0","1","2","3","4","5","6","7","8","9">>
\* a-umlaut, o-umlaut, u-umlaut (small, capital), sharp s, e-acute, degree sign
SmallUmlauts == <<"U+00E4", "U+00F6", "U+00FC">>
CapitalUmlauts == <<"U+00C4", "U+00D6", "U+00DC">>
SharpS == "U+00DF"
EAcute == "U+00E9"
EAcuteCapital == "U+00C9"
DegreeSign == "U+00B0"

IsUpperAZ(c) == c \in Range(UpperAZ)
IsLowerAZ(c) == c \in Range(LowerAZ)
IsDigit(c) == c \in Range(Digits)
IsAsciiLetter(c) == IsUpperAZ(c) \/ IsLowerAZ(c)
\* [A-Za-z0-9_]
IsIdChar(c) == IsAsciiLetter(c) \/ IsDigit(c) \/ c = "_"
\* str.isalpha() of one character: every Unicode letter
IsAlpha(c) ==
    \/ IsAsciiLetter(c)
    \/ c \in Range(SmallUmlauts) \cup Range(CapitalUmlauts)
    \/ c \in {SharpS, EAcute, EAcuteCapital}
\* \w of a str pattern: Unicode letters, digits, underscore
IsWordChar(c) == IsAlpha(c) \/ IsDigit(c) \/ c = "_"
IsSpace(c) == c = " "

IndexIn(c, s) == CHOOSE i \in 1..Len(s) : s[i] = c

\* str.lower() and str.upper() of one character, as a text
LowerChar(c) ==
    IF IsUpperAZ(c) THEN <<LowerAZ[IndexIn(c, UpperAZ)]>>
    ELSE IF c \in Range(CapitalUmlauts) THEN <<SmallUmlauts[IndexIn(c, CapitalUmlauts)]>>
    ELSE IF c = EAcuteCapital THEN <<EAcute>>
    ELSE <<c>>
UpperChar(c) ==
    IF IsLowerAZ(c) THEN <<UpperAZ[IndexIn(c, LowerAZ)]>>
    ELSE IF c \in Range(SmallUmlauts) THEN <<CapitalUmlauts[IndexIn(c, SmallUmlauts)]>>
    ELSE IF c = EAcute THEN <<EAcuteCapital>>
    ELSE IF c = SharpS THEN <<"S", "S">>
    ELSE <<c>>
Lower(s) == Concat([i \in 1..Len(s) |-> LowerChar(s[i])])
Upper(s) == Concat([i \in 1..Len(s) |-> UpperChar(s[i])])

\* str.strip()
RECURSIVE LStrip(_)
LStrip(s) == IF s # <<>> /\ IsSpace(Head(s)) THEN LStrip(Tail(s)) ELSE s
RECURSIVE RStrip(_)
RStrip(s) ==
    IF s # <<>> /\ IsSpace(s[Len(s)]) THEN RStrip(SubSeq(s, 1, Len(s) - 1)) ELSE s
Strip(s) == RStrip(LStrip(s))

\* pat occurs in s at position i; Python: pat in s
MatchAt(s, pat, i) ==
    /\ i + Len(pat) - 1 <= Len(s)
    /\ \A j \in 1..Len(pat) : s[i + j - 1] = pat[j]
Contains(s, pat) == \E i \in 1..(Len(s) + 1) : MatchAt(s, pat, i)

\* str.replace(pat, rep), pat not empty: leftmost occurrences, not
\* overlapping; the text up to the first occurrence, rep, and the rest replaced
RECURSIVE Replace(_, _, _)
Replace(s, pat, rep) ==
    LET occurrences == {i \in 1..Len(s) : MatchAt(s, pat, i)}
        first == CHOOSE i \in occurrences : \A j \in occurrences : i <= j
    IN IF occurrences = {} THEN s
       ELSE SubSeq(s, 1, first - 1) \o rep
            \o Replace(SubSeq(s, first + Len(pat), Len(s)), pat, rep)

\* decimal digits of a natural number: str(n)
RECURSIVE Dec(_)
Dec(n) == IF n < 10 THEN <<Digits[n + 1]>> ELSE Dec(n \div 10) \o <<Digits[(n % 10) + 1]>>
\* f"{n:05d}"
RECURSIVE ZeroPad(_, _)
ZeroPad(s, width) == IF Len(s) >= width THEN s ELSE ZeroPad(<<"0">> \o s, width)

----------------------------------------------------------------------------
(* Record extraction and reference resolution *)

\* products[product_id] = {name, description, id}, in statement order
extract_products_from_content(doc) ==
    DictFromPairs([i \in 1..Len(doc.products) |->
        <<doc.products[i].id,
          [name |-> Strip(doc.products[i].name),
           description |-> Strip(doc.products[i].description),
           id |-> doc.products[i].id]>>])

\* annotations[annotation_id] = {name, description}
extract_annotations_from_content(doc) ==
    DictFromPairs([i \in 1..Len(doc.annotations) |->
        <<doc.annotations[i].id,
          [name |-> Strip(doc.annotations[i].name),
           description |-> Strip(doc.annotations[i].description)]>>])

\* lines 160-164: representation -> the annotation ids among its items
RECURSIVE repr_to_annotations(_, _)
repr_to_annotations(reprs, annotations) ==
    IF reprs = <<>> THEN <<>>
    ELSE LET n == Len(reprs)
             before == repr_to_annotations(SubSeq(reprs, 1, n - 1), annotations)
             annotations_in_repr ==
                 SelectSeq(reprs[n].items, LAMBDA item_id : DictHas(annotations, item_id))
         IN IF annotations_in_repr # <<>>
            THEN DictPut(before, reprs[n].id, annotations_in_repr)
            ELSE before

prod_def_to_formation(doc) ==
    DictFromPairs([i \in 1..Len(doc.prod_defs) |->
        <<doc.prod_defs[i].id, doc.prod_defs[i].formation>>])
formation_to_product(doc) ==
    DictFromPairs([i \in 1..Len(doc.formations) |->
        <<doc.formations[i].id, doc.formations[i].product>>])
prop_def_to_prod_def(doc) ==
    DictFromPairs([i \in 1..Len(doc.prop_defs) |->
        <<doc.prop_defs[i].id, doc.prop_defs[i].prod_def>>])

\* lines 168-176: representation -> product, the last resolving
\* property-definition-representation of a representation wins
RECURSIVE repr_to_product(_, _, _, _)
repr_to_product(pdrs, doc, products, r2a) ==
    IF pdrs = <<>> THEN <<>>
    ELSE LET n == Len(pdrs)
             before == repr_to_product(SubSeq(pdrs, 1, n - 1), doc, products, r2a)
             pdr == pdrs[n]
             pd2f == prod_def_to_formation(doc)
             f2p == formation_to_product(doc)
             p2pd == prop_def_to_prod_def(doc)
         IN IF /\ DictHas(r2a, pdr.repr)
               /\ DictHas(p2pd, pdr.prop_def)
               /\ DictHas(pd2f, DictGet(p2pd, pdr.prop_def))
               /\ DictHas(f2p, DictGet(pd2f, DictGet(p2pd, pdr.prop_def)))
               /\ DictHas(products,
                          DictGet(f2p, DictGet(pd2f, DictGet(p2pd, pdr.prop_def))))
            THEN DictPut(before, pdr.repr,
                         DictGet(f2p, DictGet(pd2f, DictGet(p2pd, pdr.prop_def))))
            ELSE before

\* product_annotations[product_id].append(ann) on a defaultdict(list)
DictAppend(d, k, v) ==
    IF DictHas(d, k) THEN DictPut(d, k, Append(DictGet(d, k), v))
    ELSE Append(d, <<k, <<v>> >>)

\* lines 180-182: the annotations of one representation go to its product
RECURSIVE append_annotations(_, _, _, _)
append_annotations(pa, product_id, annotation_ids, annotations) ==
    IF annotation_ids = <<>> THEN pa
    ELSE LET n == Len(annotation_ids)
             before == append_annotations(pa, product_id,
                                          SubSeq(annotation_ids, 1, n - 1), annotations)
         IN IF DictHas(annotations, annotation_ids[n])
            THEN DictAppend(before, product_id, DictGet(annotations, annotation_ids[n]))
            ELSE before

\* lines 177-182
RECURSIVE chain_links(_, _, _)
chain_links(r2a, r2p, annotations) ==
    IF r2a = <<>> THEN <<>>
    ELSE LET n == Len(r2a)
             before == chain_links(SubSeq(r2a, 1, n - 1), r2p, annotations)
         IN IF DictHas(r2p, r2a[n][1])
            THEN append_annotations(before, DictGet(r2p, r2a[n][1]), r2a[n][2], annotations)
            ELSE before

\* lines 186-193: the annotations a product name matches by containment
RECURSIVE fallback_product(_, _, _, _)
fallback_product(pa, product_id, product_name_lower, annotations) ==
    IF annotations = <<>> THEN pa
    ELSE LET n == Len(annotations)
             before == fallback_product(pa, product_id, product_name_lower,
                                        SubSeq(annotations, 1, n - 1))
             \* product_annotations[product_id] creates the entry when it is read
             touched == IF DictHas(before, product_id) THEN before
                        ELSE Append(before, <<product_id, <<>> >>)
             annotation == annotations[n][2]
             ann_name_lower == Lower(annotation.name)
             ann_desc_lower == Lower(annotation.description)
         IN IF \/ Contains(ann_name_lower, product_name_lower)
               \/ Contains(ann_desc_lower, product_name_lower)
               \/ Contains(product_name_lower, ann_name_lower)
            THEN IF ~InSeq(annotation, DictGet(touched, product_id))
                 THEN DictAppend(touched, product_id, annotation)
                 ELSE touched
            ELSE before

\* lines 183-193
RECURSIVE fallback_links(_, _, _)
fallback_links(pa, products, annotations) ==
    IF products = <<>> THEN pa
    ELSE LET n == Len(products)
             before == fallback_links(pa, SubSeq(products, 1, n - 1), annotations)
         IN fallback_product(before, products[n][1], Lower(products[n][2].name),
                             annotations)

\* the linker with the fallback always on
link_annotations_to_products_always_fallback(doc, products, annotations, fallback) ==
    LET r2a == repr_to_annotations(doc.representations, annotations)
        r2p == repr_to_product(doc.prop_def_reprs, doc, products, r2a)
        linked == chain_links(r2a, r2p, annotations)
    IN fallback_links(linked, products, annotations)

\* product_id -> list of annotations
link_annotations_to_products_in_content(doc, products, annotations, fallback) ==
    LET r2a == repr_to_annotations(doc.representations, annotations)
        r2p == repr_to_product(doc.prop_def_reprs, doc, products, r2a)
        linked == chain_links(r2a, r2p, annotations)
    IN IF fallback THEN fallback_links(linked, products, annotations) ELSE linked

\* lines 204-210; NoProduct stands for None
NoProduct == -1

\* the resolution without the test that the product was extracted
resolve_product_from_definition_unchecked(doc, products, prod_def_id) ==
    LET pd2f == prod_def_to_formation(doc)
        f2p == formation_to_product(doc)
    IN IF /\ DictHas(pd2f, prod_def_id)
          /\ DictHas(f2p, DictGet(pd2f, prod_def_id))
       THEN DictGet(f2p, DictGet(pd2f, prod_def_id))
       ELSE NoProduct

resolve_product_from_definition(doc, products, prod_def_id) ==
    LET pd2f == prod_def_to_formation(doc)
        f2p == formation_to_product(doc)
    IN IF /\ DictHas(pd2f, prod_def_id)
          /\ DictHas(f2p, DictGet(pd2f, prod_def_id))
          /\ DictHas(products, DictGet(f2p, DictGet(pd2f, prod_def_id)))
       THEN DictGet(f2p, DictGet(pd2f, prod_def_id))
       ELSE NoProduct

\* lines 211-220: the edges this document appends to assembly_relationships
RECURSIVE extract_assembly_relationships_from_content(_, _, _)
extract_assembly_relationships_from_content(doc, products, usages) ==
    IF usages = <<>> THEN <<>>
    ELSE LET n == Len(usages)
             before == extract_assembly_relationships_from_content(
                           doc, products, SubSeq(usages, 1, n - 1))
             parent_product_id ==
                 resolve_product_from_definition(doc, products, usages[n].relating)
             child_product_id ==
                 resolve_product_from_definition(doc, products, usages[n].related)
         IN IF parent_product_id # NoProduct /\ child_product_id # NoProduct
            THEN Append(before, [parent_product_id |-> parent_product_id,
                                 child_product_id |-> child_product_id])
            ELSE before

----------------------------------------------------------------------------
(* Component registry *)

standard_keywords ==
    << <<"s","c","r","e","w">>, <<"b","o","l","t">>, <<"n","u","t">>,
       <<"w","a","s","h","e","r">>, <<"b","e","a","r","i","n","g">>,
       <<"m","o","t","o","r">>, <<"s","e","n","s","o","r">>,
       <<"v","a","l","v","e">>, <<"c","y","l","i","n","d","e","r">>,
       <<"s","p","r","i","n","g">>, <<"p","i","n">>, <<"g","e","a","r">>,
       <<"c","o","u","p","l","i","n","g">>, <<"f","a","s","t","e","n","e","r">>,
       <<"f","i","t","t","i","n","g">>, <<"c","o","n","n","e","c","t","o","r">>,
       <<"s","w","i","t","c","h">>, <<"r","e","l","a","y">>,
       <<"a","c","t","u","a","t","o","r">>, <<"e","n","c","o","d","e","r">>,
       <<"d","r","i","v","e">>, <<"p","u","m","p">>, <<"f","i","l","t","e","r">>
    >>

manufacturers ==
    << <<"f","e","s","t","o">>, <<"b","a","l","l","u","f","f">>, <<"h","b","m">>,
       <<"s","i","e","m","e","n","s">>, <<"b","o","s","c","h">>,
       <<"p","a","r","k","e","r">>, <<"s","m","c">>, <<"o","m","r","o","n">>,
       <<"k","e","y","e","n","c","e">>, <<"s","i","c","k">>, <<"i","f","m">>
    >>

\* re.search(r'(?i)(festo|...|ifm)', text)
matches_manufacturer(text) ==
    \E i \in 1..Len(manufacturers) : Contains(Lower(text), manufacturers[i])

\* re.search(r'[A-Z]{2,}-\d+', text)
matches_catalog_number(text) ==
    \E i \in 1..Len(text) :
        /\ i + 3 <= Len(text)
        /\ IsUpperAZ(text[i]) /\ IsUpperAZ(text[i + 1])
        /\ text[i + 2] = "-" /\ IsDigit(text[i + 3])

\* \b between positions i and i + 1 of text
word_boundary(text, i) ==
    LET left == i >= 1 /\ i <= Len(text) /\ IsWordChar(text[i])
        right == i + 1 >= 1 /\ i + 1 <= Len(text) /\ IsWordChar(text[i + 1])
    IN left # right

\* re.search(r'\b[A-Z]\d{4,}\b', text)
matches_part_number(text) ==
    \E i \in 1..Len(text) : \E j \in (i + 4)..Len(text) :
        /\ word_boundary(text, i - 1)
        /\ IsUpperAZ(text[i])
        /\ \A k \in (i + 1)..j : IsDigit(text[k])
        /\ word_boundary(text, j)

\* the classifier reading the text as written, without .lower()
identify_component_type_no_lower(product_info, annotations, has_children) ==
    LET product_text == product_info.name \o <<" ">> \o product_info.description
        annotation_text ==
            Join(<<" ">>, [i \in 1..Len(annotations) |->
                annotations[i].name \o <<" ">> \o annotations[i].description])
        combined_text == product_text \o <<" ">> \o annotation_text
    IN IF \E i \in 1..Len(standard_keywords) :
              Contains(combined_text, standard_keywords[i])
       THEN "STANDARD_PART"
       ELSE IF \/ matches_manufacturer(combined_text)
               \/ matches_catalog_number(combined_text)
               \/ matches_part_number(combined_text)
            THEN "STANDARD_PART"
            ELSE IF has_children THEN "ASSEMBLY" ELSE "PART"

identify_component_type(product_info, annotations, has_children) ==
    LET product_text ==
            Lower(product_info.name \o <<" ">> \o product_info.description)
        annotation_text ==
            Lower(Join(<<" ">>, [i \in 1..Len(annotations) |->
                annotations[i].name \o <<" ">> \o annotations[i].description]))
        combined_text == product_text \o <<" ">> \o annotation_text
    IN IF \E i \in 1..Len(standard_keywords) :
              Contains(combined_text, standard_keywords[i])
       THEN "STANDARD_PART"
       ELSE IF \/ matches_manufacturer(combined_text)
               \/ matches_catalog_number(combined_text)
               \/ matches_part_number(combined_text)
            THEN "STANDARD_PART"
            ELSE IF has_children THEN "ASSEMBLY" ELSE "PART"

\* re.sub(r'-\d+$', '', name.strip())
remove_solidworks_suffix(name) ==
    LET s == Strip(name)
        starts == {i \in 1..Len(s) :
                      /\ s[i] = "-" /\ i < Len(s)
                      /\ \A k \in (i + 1)..Len(s) : IsDigit(s[k])}
    IN IF starts = {} THEN s
       ELSE SubSeq(s, 1, (CHOOSE i \in starts : \A j \in starts : i <= j) - 1)

\* f"P{index:05d}"
synthetic_id(index) == <<"P">> \o ZeroPad(Dec(index), 5)

NoNode == -1
VirtualRoot == 0

\* file_info = {} (line 26), and the author and organization that
\* extract_file_info reads from the FILE_NAME header
NoFileInfo == [author |-> <<>>, organization |-> <<>>]
extract_file_info(doc) ==
    [author |-> Strip(doc.author), organization |-> Strip(doc.organization)]

\* geometry_info = {} (line 25)
NoGeometry == [measured |-> FALSE, volume |-> 0, surface_area |-> 0]

\* lines 261-275: the component of the index-th product
ComponentNode(index, product_info, product_annotations, relationships, main_path, file_info) ==
    LET product_id == product_info.id
        has_children ==
            \E i \in 1..Len(relationships) :
                relationships[i].parent_product_id = product_id
        component_annotations ==
            IF DictHas(product_annotations, product_id)
            THEN DictGet(product_annotations, product_id) ELSE <<>>
    IN [name |-> product_info.name,
        product_id |-> synthetic_id(index),
        original_product_id |-> product_id,
        source_file |-> main_path,
        node_type |-> IF has_children THEN "ASSEMBLY"
                      ELSE identify_component_type(product_info,
                                                   component_annotations, has_children),
        children |-> <<>>,
        parent |-> NoNode,
        annotations |-> component_annotations,
        geometry_info |-> NoGeometry,
        file_info |-> file_info,
        annotation_files |-> <<>>]

\* lines 293-298: the first component of a normalized name keeps the slot
RECURSIVE build_name_index(_)
build_name_index(components) ==
    IF components = <<>> THEN <<>>
    ELSE LET n == Len(components)
             before == build_name_index(SubSeq(components, 1, n - 1))
             key == Upper(remove_solidworks_suffix(components[n].name))
         IN IF DictHas(before, key) THEN before ELSE Append(before, <<key, n>>)

\* lines 250-300: the components and the name index of the primary document
\* the synthetic id built from the native id of the product
process_main_assembly_native_ids(doc, main_path, fallback) ==
    LET products == extract_products_from_content(doc)
        annotations == extract_annotations_from_content(doc)
        product_annotations ==
            link_annotations_to_products_in_content(doc, products, annotations, fallback)
        relationships ==
            extract_assembly_relationships_from_content(doc, products, doc.usages)
        components ==
            [index \in 1..Len(products) |->
                ComponentNode(products[index][1], products[index][2],
                              product_annotations, relationships, main_path,
                              extract_file_info(doc))]
    IN [all_components |-> components,
        assembly_relationships |-> relationships,
        standard_parts |->
            {index \in 1..Len(components) :
                components[index].node_type = "STANDARD_PART"},
        component_name_index |-> build_name_index(components)]

process_main_assembly(doc, main_path, fallback) ==
    LET products == extract_products_from_content(doc)
        annotations == extract_annotations_from_content(doc)
        product_annotations ==
            link_annotations_to_products_in_content(doc, products, annotations, fallback)
        relationships ==
            extract_assembly_relationships_from_content(doc, products, doc.usages)
        components ==
            [index \in 1..Len(products) |->
                ComponentNode(index, products[index][2], product_annotations,
                              relationships, main_path, extract_file_info(doc))]
    IN [all_components |-> components,
        assembly_relationships |-> relationships,
        standard_parts |->
            {index \in 1..Len(components) :
                components[index].node_type = "STANDARD_PART"},
        component_name_index |-> build_name_index(components)]

----------------------------------------------------------------------------
(* Annotation supplementer *)

\* os.path.splitext(os.path.basename(filename))[0]
file_base_name(name) ==
    LET dots == {i \in 2..Len(name) :
                    name[i] = "." /\ \E k \in 1..(i - 1) : name[k] # "."}
    IN IF dots = {} THEN name
       ELSE SubSeq(name, 1, (CHOOSE i \in dots : \A j \in dots : j <= i) - 1)

\* lines 324-326
RECURSIVE all_file_annotations(_)
all_file_annotations(product_annotations) ==
    IF product_annotations = <<>> THEN <<>>
    ELSE product_annotations[1][2] \o all_file_annotations(Tail(product_annotations))

\* the merge without the already-present test
merge_annotations_no_check(existing, file_annotations) ==
    existing \o file_annotations

\* the merge in which the annotations of the last document replace the others
merge_annotations_last_wins(existing, file_annotations) ==
    file_annotations

\* the merge that puts the new annotations in front of the existing ones
merge_annotations_in_front(existing, file_annotations) ==
    [i \in 1..(Len(existing) + Len(file_annotations)) |->
        IF i <= Len(file_annotations) THEN file_annotations[i]
        ELSE existing[i - Len(file_annotations)]]

\* lines 344-348: the annotations of the component after the merge
RECURSIVE merge_annotations(_, _)
merge_annotations(existing, file_annotations) ==
    IF file_annotations = <<>> THEN existing
    ELSE LET ann == Head(file_annotations)
         IN IF ~\E i \in 1..Len(existing) :
                   /\ existing[i].name = ann.name
                   /\ existing[i].description = ann.description
            THEN merge_annotations(Append(existing, ann), Tail(file_annotations))
            ELSE merge_annotations(existing, Tail(file_annotations))

\* lines 353-354
add_annotation_file(files, filename) ==
    IF ~InSeq(filename, files) THEN Append(files, filename) ELSE files

\* the pass that does not skip a document it cannot read or match
supplement_file_no_skip(st, f, dir, main, index, tree, fallback) ==
    LET doc == dir[f].doc
        file_annotations ==
            all_file_annotations(link_annotations_to_products_in_content(
                doc, extract_products_from_content(doc),
                extract_annotations_from_content(doc), fallback))
        key == Upper(remove_solidworks_suffix(file_base_name(dir[f].name)))
        c == IF DictHas(index, key) THEN DictGet(index, key) ELSE 1
    IN IF (main = "present" /\ f = 1) \/ file_annotations = <<>>
       THEN st
       ELSE [comps |-> [st.comps EXCEPT
                           ![c].annotations = merge_annotations(@, file_annotations),
                           ![c].annotation_files = add_annotation_file(@, f)],
             files |-> Append(st.files, f)]

\* lines 306-359, one file of step_files.  st = [comps, files]: all_components
\* and the parser's annotation_files; f is the index of the file in dir.
supplement_file(st, f, dir, main, index, tree, fallback) ==
    LET doc == dir[f].doc
        products == extract_products_from_content(doc)
        annotations == extract_annotations_from_content(doc)
        product_annotations ==
            link_annotations_to_products_in_content(doc, products, annotations, fallback)
        file_annotations == all_file_annotations(product_annotations)
        key == Upper(remove_solidworks_suffix(file_base_name(dir[f].name)))
        matched == DictHas(index, key) /\ DictGet(index, key) # tree
        c == DictGet(index, key)
    IN IF \/ (main = "present" /\ f = 1)
          \/ ~doc.readable
          \/ (doc.annotations = <<>> /\ doc.prop_def_reprs = <<>>)
          \/ annotations = <<>>
          \/ file_annotations = <<>>
       THEN st
       ELSE [comps |->
                IF matched
                THEN [st.comps EXCEPT
                        ![c].annotations = merge_annotations(@, file_annotations),
                        ![c].annotation_files = add_annotation_file(@, f)]
                ELSE st.comps,
             files |-> Append(st.files, f)]

\* supplement_annotations_from_files(step_files)
RECURSIVE supplement_annotations_from_files(_, _, _, _, _, _, _)
supplement_annotations_from_files(st, files, dir, main, index, tree, fallback) ==
    IF files = <<>> THEN st
    ELSE supplement_annotations_from_files(
             supplement_file(st, Head(files), dir, main, index, tree, fallback),
             Tail(files), dir, main, index, tree, fallback)

----------------------------------------------------------------------------
(* Assembly tree builder *)

\* ComponentNode.add_child, parent and child both components
add_child(comps, parent, child) ==
    LET linked == [comps EXCEPT ![child].parent = parent]
    IN [linked EXCEPT ![parent].children = Append(@, child)]

\* lines 374-378: the last component with that original id, NoNode for None
find_component(comps, orig_id) ==
    LET hits == {i \in 1..Len(comps) : comps[i].original_product_id = orig_id}
    IN IF hits = {} THEN NoNode ELSE CHOOSE i \in hits : \A j \in hits : j <= i

\* lines 367-382.  t = [comps, parents, children]
RECURSIVE link_relationships(_, _)
link_relationships(t, rels) ==
    IF rels = <<>> THEN t
    ELSE LET parent_comp == find_component(t.comps, Head(rels).parent_product_id)
             child_comp == find_component(t.comps, Head(rels).child_product_id)
         IN IF parent_comp # NoNode /\ child_comp # NoNode
            THEN link_relationships(
                     [comps |-> add_child(t.comps, parent_comp, child_comp),
                      parents |-> t.parents \cup {parent_comp},
                      children |-> t.children \cup {child_comp}],
                     Tail(rels))
            ELSE link_relationships(t, Tail(rels))

\* lines 383-384, in the order of all_components
root_candidates(t) ==
    SelectSeq([i \in 1..Len(t.comps) |-> i],
              LAMBDA i : i \in t.parents /\ i \notin t.children)

\* lines 389-390
orphaned(t) ==
    SelectSeq([i \in 1..Len(t.comps) |-> i], LAMBDA i : i \notin t.children)

\* the virtual root adopts the listed components (lines 364-365, 391-392)
adopt(comps, kids) ==
    [i \in 1..Len(comps) |->
        IF InSeq(i, kids) THEN [comps[i] EXCEPT !.parent = VirtualRoot] ELSE comps[i]]

\* build_assembly_tree: [comps, tree, virtual]
build_assembly_tree(comps, rels) ==
    IF rels = <<>>
    THEN [comps |-> adopt(comps, [i \in 1..Len(comps) |-> i]),
          tree |-> VirtualRoot,
          virtual |-> [i \in 1..Len(comps) |-> i]]
    ELSE LET t == link_relationships(
                      [comps |-> comps, parents |-> {}, children |-> {}], rels)
         IN IF root_candidates(t) # <<>>
            THEN [comps |-> t.comps, tree |-> root_candidates(t)[1], virtual |-> <<>>]
            ELSE [comps |-> adopt(t.comps, orphaned(t)),
                  tree |-> VirtualRoot,
                  virtual |-> orphaned(t)]

----------------------------------------------------------------------------
(* Identifier allocator (BatchAASFromSTP) *)

\* dict_replace, in the order of the dict
dict_replace ==
    << << <<"U+00E4">>, <<"a","e">> >>, << <<"U+00C4">>, <<"A","e">> >>,
       << <<"U+00F6">>, <<"o","e">> >>, << <<"U+00D6">>, <<"O","e">> >>,
       << <<"U+00FC">>, <<"u","e">> >>, << <<"U+00DC">>, <<"U","e">> >>,
       << <<DegreeSign, "C">>,
          <<"d","e","g","r","e","e","C","e","l","s","i","u","s">> >>,
       << <<" ">>, <<"_">> >>, << <<"-">>, <<"_">> >>,
       << <<".">>, <<>> >>, << <<"/">>, <<>> >>, << <<"#">>, <<>> >>,
       << <<"%">>, <<"p","e","r","c","e","n","t","a","g","e">> >>,
       << <<",">>, <<>> >>, << <<"(">>, <<>> >>, << <<")">>, <<>> >>,
       << <<"[">>, <<>> >>, << <<"]">>, <<>> >> >>

\* the value of a local that is computed once: the element of a singleton
Only(S) == CHOOSE result \in S : TRUE

\* the entries of dict_replace from index lo on, applied in the order of the
\* dict; an entry whose key does not occur leaves the text as it is, so the
\* next entry that acts is the first whose key occurs
RECURSIVE replace_with(_, _)
replace_with(str_input, lo) ==
    LET occurring == {k \in lo..Len(dict_replace) : Contains(str_input, dict_replace[k][1])}
        next == CHOOSE k \in occurring : \A j \in occurring : k <= j
    IN IF occurring = {} THEN str_input
       ELSE Only({ replace_with(replaced, next + 1)
                   : replaced \in {Replace(str_input, dict_replace[next][1],
                                           dict_replace[next][2])} })

replace_str(str_input) == replace_with(str_input, 1)

\* re.sub(r"[^A-Za-z0-9_]", "_", id_short)
fill_disallowed(id_short) ==
    [i \in 1..Len(id_short) |-> IF IsIdChar(id_short[i]) THEN id_short[i] ELSE "_"]

\* check_id_short of a text that is not empty (id_short[0] raises on "")
check_id_short(id_short) ==
    fill_disallowed(IF IsAlpha(id_short[1]) THEN replace_str(id_short)
                    ELSE <<"X">> \o id_short)

common_props ==
    { <<"T","y","p","e">>, <<"L","e","v","e","l">>,
      <<"P","r","o","d","u","c","t","_","I","D">>,
      <<"S","o","u","r","c","e","_","F","i","l","e">>,
      <<"V","o","l","u","m","e">>,
      <<"S","u","r","f","a","c","e","_","A","r","e","a">> }

\* the collision loop as a single if
first_free_once(unique_id, clean_id, counter, used) ==
    IF unique_id \in used THEN clean_id \o <<"_">> \o Dec(counter) ELSE unique_id

\* lines 58-61
RECURSIVE first_free(_, _, _, _)
first_free(unique_id, clean_id, counter, used) ==
    IF unique_id \in used
    THEN first_free(clean_id \o <<"_">> \o Dec(counter), clean_id, counter + 1, used)
    ELSE unique_id

\* the allocator that never tries the context token
get_unique_id_no_token(base_id, context_suffix, used) ==
    IF base_id = <<>>
    THEN [raised |-> TRUE, id |-> <<>>, used |-> used]
    ELSE Only({
        IF clean_id \in common_props
        THEN [raised |-> FALSE, id |-> clean_id, used |-> used]
        ELSE Only({ [raised |-> FALSE, id |-> final, used |-> used \cup {final}]
                    : final \in {first_free(clean_id, clean_id, 1, used)} })
        : clean_id \in {check_id_short(base_id)} })

\* get_unique_id(base_id, context_suffix=context_suffix) on the ledger used:
\* [raised, id, used]; an empty context_suffix stands for None
get_unique_id(base_id, context_suffix, used) ==
    IF base_id = <<>>
    THEN [raised |-> TRUE, id |-> <<>>, used |-> used]
    ELSE Only({
        IF clean_id \in common_props
        THEN [raised |-> FALSE, id |-> clean_id, used |-> used]
        ELSE Only({ [raised |-> FALSE, id |-> final, used |-> used \cup {final}]
                    : final \in {first_free(
                          IF clean_id \in used /\ context_suffix # <<>>
                             /\ clean_id \o <<"_">> \o check_id_short(context_suffix)
                                    \notin used
                          THEN clean_id \o <<"_">> \o check_id_short(context_suffix)
                          ELSE clean_id,
                          clean_id, 1, used)} })
        : clean_id \in {IF check_id_short(base_id) = <<>>
                        THEN <<"C","o","m","p","o","n","e","n","t">>
                        ELSE check_id_short(base_id)} })

----------------------------------------------------------------------------
(* AAS writer (BatchAASFromSTP): the identifiers of the emitted collections *)

L_Product_ID == <<"P","r","o","d","u","c","t","_","I","D">>
L_Type == <<"T","y","p","e">>
L_Level == <<"L","e","v","e","l">>
L_Source_File == <<"S","o","u","r","c","e","_","F","i","l","e">>
L_Standard_Type == <<"S","t","a","n","d","a","r","d","_","T","y","p","e">>
L_Annotations == <<"A","n","n","o","t","a","t","i","o","n","s">>
L_Files == <<"F","i","l","e","s">>
L_AnnotationFile == <<"A","n","n","o","t","a","t","i","o","n","F","i","l","e","_">>
L_Volume == <<"V","o","l","u","m","e">>
L_Surface_Area == <<"S","u","r","f","a","c","e","_","A","r","e","a">>
L_Center_of_Mass == <<"C","e","n","t","e","r","_","o","f","_","M","a","s","s">>
L_Bounding_Box == <<"B","o","u","n","d","i","n","g","_","B","o","x">>
L_Min == <<"M","i","n">>
L_Max == <<"M","a","x">>
L_Range == <<"R","a","n","g","e">>
L_Geometry == <<"G","e","o","m","e","t","r","y">>
L_Components == <<"C","o","m","p","o","n","e","n","t","s">>
L_Main_Assembly == <<"M","a","i","n","_","A","s","s","e","m","b","l","y">>
L_Main_Assembly_Name ==
    <<"M","a","i","n","_","A","s","s","e","m","b","l","y","_","N","a","m","e">>
L_Main_Assembly_Author ==
    <<"M","a","i","n","_","A","s","s","e","m","b","l","y","_","A","u","t","h","o","r">>
L_Main_Assembly_Organization ==
    <<"M","a","i","n","_","A","s","s","e","m","b","l","y","_",
      "O","r","g","a","n","i","z","a","t","i","o","n">>
L_XYZ == << <<"X">>, <<"Y">>, <<"Z">> >>
L_LWH == << <<"L","e","n","g","t","h">>, <<"W","i","d","t","h">>,
            <<"H","e","i","g","h","t">> >>

\* the writer while it builds the submodel: the ledger, the collections
\* emitted so far, the elements of the collection under construction, and
\* whether a call has raised
Writer(used) == [used |-> used, out |-> <<>>, ids |-> <<>>, raised |-> FALSE]

\* create_property for each id_short in turn: the identifiers join w.ids.
\* The first half of the calls runs on w, the second half on its result
RECURSIVE create_property(_, _)
create_property(w, id_shorts) ==
    IF id_shorts = <<>> \/ w.raised THEN w
    ELSE IF Len(id_shorts) = 1
    THEN Only({ [w EXCEPT !.used = r.used, !.raised = r.raised,
                          !.ids = IF r.raised THEN @ ELSE Append(@, r.id)]
                : r \in {get_unique_id(id_shorts[1], <<>>, w.used)} })
    ELSE Only({ create_property(
                    first, SubSeq(id_shorts, (Len(id_shorts) \div 2) + 1, Len(id_shorts)))
                : first \in {create_property(
                                 w, SubSeq(id_shorts, 1, Len(id_shorts) \div 2))} })

\* create_smc over the elements w.ids: the collection is emitted and its
\* identifier joins the elements of the enclosing collection
create_smc(writer, enclosing, id_short, context_suffix) ==
    Only({ IF w.raised THEN w
           ELSE Only({ IF r.raised THEN [w EXCEPT !.raised = TRUE]
                       ELSE [used |-> r.used,
                             out |-> Append(w.out, [id_short |-> r.id,
                                                    elements |-> w.ids]),
                             ids |-> Append(enclosing, r.id),
                             raised |-> FALSE]
                       : r \in {get_unique_id(id_short, context_suffix, w.used)} })
           : w \in {writer} })

\* a collection of three or two properties inside the geometry: the
\* properties, then the collection around them
property_smc(w, enclosing, id_shorts, id_short) ==
    create_smc(create_property([w EXCEPT !.ids = <<>>], id_shorts),
               enclosing, id_short, <<>>)

\* lines 103-145: the geometry collection of the root, each step on the
\* writer the step before it left
geometry_elements(w, geom) ==
    Only({
     Only({
      Only({
       Only({
        Only({ create_smc(create_smc(range, com.ids, L_Bounding_Box, <<>>),
                          w.ids, L_Geometry, <<>>)
               : range \in {property_smc(max, max.ids, L_LWH, L_Range)} })
        : max \in {property_smc(min, min.ids, L_XYZ, L_Max)} })
       : min \in {property_smc(com, <<>>, L_XYZ, L_Min)} })
      : com \in {property_smc(measures, measures.ids, L_XYZ, L_Center_of_Mass)} })
     : measures \in {create_property([w EXCEPT !.ids = <<>>],
           (IF geom.volume > 0 THEN <<L_Volume>> ELSE <<>>)
           \o (IF geom.surface_area > 0 THEN <<L_Surface_Area>> ELSE <<>>))} })

\* create_component_elements: w.ids become the elements of the component
create_component_elements(w, component, is_standard, level) ==
    LET named == SelectSeq(component.annotations,
                           LAMBDA ann : ann.name # <<>> /\ ann.description # <<>>)
        file_elements ==
            [i \in 1..Len(component.annotation_files) |-> L_AnnotationFile \o Dec(i - 1)]
    IN Only({
        Only({
         Only({ IF level = 0 /\ component.geometry_info.measured
                THEN geometry_elements(with_files, component.geometry_info)
                ELSE with_files
                : with_files \in {
                    IF file_elements = <<>> \/ with_annotations.raised
                    THEN with_annotations
                    ELSE create_smc([with_annotations EXCEPT !.ids = file_elements],
                                    with_annotations.ids, L_Files,
                                    component.product_id)} })
         : with_annotations \in {
             IF named = <<>> THEN props
             ELSE create_smc(create_property([props EXCEPT !.ids = <<>>],
                                 [i \in 1..Len(named) |-> named[i].name]),
                             props.ids, L_Annotations, component.product_id)} })
        : props \in {create_property([w EXCEPT !.ids = <<>>],
              <<L_Product_ID, L_Type, L_Level, L_Source_File>>
              \o (IF is_standard THEN <<L_Standard_Type>> ELSE <<>>))} })

\* the deepest walk an acyclic tree of these components can need; the
\* interpreter's recursion limit lies above it, and a deeper walk never ends
recursion_limit(comps) == Len(comps)

\* create_component_smc, and its loop over the children (lines 151-153)
RECURSIVE create_component_smc(_, _, _, _, _), create_children(_, _, _, _, _)
create_children(w, children, level, depth, parser) ==
    IF children = <<>> \/ w.raised THEN w
    ELSE Only({ create_children(next, Tail(children), level, depth, parser)
                : next \in {create_component_smc(w, children[1], level, depth, parser)} })

create_component_smc(w, index, level, depth, parser) ==
    IF w.raised THEN w
    ELSE IF depth > recursion_limit(parser.comps) THEN [w EXCEPT !.raised = TRUE]
    ELSE LET component == parser.comps[index]
         IN Only({
             create_smc(
                 IF component.children = <<>> THEN elements
                 ELSE create_smc(
                          create_children([elements EXCEPT !.ids = <<>>],
                              component.children, level + 1, depth + 1, parser),
                          elements.ids, L_Components, component.product_id),
                 w.ids, component.name, component.product_id)
             : elements \in {create_component_elements(
                                 w, component, index \in parser.standard_parts, level)} })

\* the node build_assembly_tree creates when no component is the root
virtual_root(children) ==
    [name |-> <<"S","S","I","_","A","n","l","a","g","e","_","R","o","o","t">>,
     product_id |-> <<"r","o","o","t","_","a","s","s","e","m","b","l","y">>,
     node_type |-> "ASSEMBLY",
     children |-> children,
     annotations |-> <<>>,
     geometry_info |-> NoGeometry,
     file_info |-> NoFileInfo,
     annotation_files |-> <<>>]

\* create_assembly_submodel on a parser whose tree is set: the writer after
\* the Main_Assembly collection
create_assembly_submodel(parser, used) ==
    LET root == IF parser.tree = VirtualRoot THEN virtual_root(parser.virtual)
                ELSE parser.comps[parser.tree]
    IN Only({
        Only({
            create_smc(
                IF root.children = <<>> THEN main_info
                ELSE create_smc(
                         create_children([main_info EXCEPT !.ids = <<>>],
                                         root.children, 1, 1, parser),
                         main_info.ids, L_Components, root.product_id),
                <<>>, L_Main_Assembly, root.product_id)
            : main_info \in {
                IF parser.processed_files # <<>>
                THEN create_property(root_elements,
                         <<L_Main_Assembly_Name>>
                         \o (IF root.file_info.author # <<>>
                             THEN <<L_Main_Assembly_Author>> ELSE <<>>)
                         \o (IF root.file_info.organization # <<>>
                             THEN <<L_Main_Assembly_Organization>> ELSE <<>>))
                ELSE root_elements} })
        : root_elements \in {create_component_elements(
              Writer(used), root, parser.tree \in parser.standard_parts, 0)} })

----------------------------------------------------------------------------
(* Inputs *)

MaxUsages == 3
MaxExtraCalls == 1
MaxCalls == 3
MaxProducts == 3
MaxChainUsages == 2
MaxPdrs == 2

SeqsUpTo(S, n) == UNION {[1..k -> S] : k \in 0..n}

T_R == <<"R">>
T_A == <<"A">>
T_B == <<"B">>
T_Bracket == <<"B","r","a","c","k","e","t">>
T_BRACKET_2 == <<"B","R","A","C","K","E","T","-","2">>
T_Housing == <<"H","o","u","s","i","n","g">>
T_M6_Screw == <<"M","6"," ","S","c","r","e","w">>
T_Festo == <<"F","e","s","t","o">>
T_Motor_Unit == <<"M","o","t","o","r"," ","U","n","i","t">>
T_AB_1234 == <<"A","B","-","1","2","3","4">>
T_K12345 == <<"K","1","2","3","4","5">>
T_Torque == <<"T","o","r","q","u","e">>
T_10_Nm == <<"1","0"," ","N","m">>
T_Mass == <<"M","a","s","s">>
T_2_kg == <<"2"," ","k","g">>
F_main == <<"m","a","i","n",".","s","t","p">>
F_Bracket_1 == <<"B","r","a","c","k","e","t","-","1",".","s","t","p">>
F_bracket == <<"b","r","a","c","k","e","t",".","S","T","E","P">>
F_Other == <<"O","t","h","e","r",".","s","t","p">>

Torque == [name |-> T_Torque, description |-> T_10_Nm]
Mass == [name |-> T_Mass, description |-> T_2_kg]

EmptyDoc ==
    [readable |-> TRUE, author |-> <<>>, organization |-> <<>>,
     products |-> <<>>, annotations |-> <<>>,
     representations |-> <<>>, prop_def_reprs |-> <<>>, prop_defs |-> <<>>,
     prod_defs |-> <<>>, formations |-> <<>>, usages |-> <<>>]

\* Product i is #(10 i), with PRODUCT_DEFINITION #(10 i + 1) ->
\* PRODUCT_DEFINITION_FORMATION #(10 i + 2) -> the product.
ProductChain(names) ==
    [EmptyDoc EXCEPT
        !.products = [i \in 1..Len(names) |->
                         [id |-> 10 * i, name |-> names[i], description |-> <<>>]],
        !.prod_defs = [i \in 1..Len(names) |->
                          [id |-> 10 * i + 1, formation |-> 10 * i + 2]],
        !.formations = [i \in 1..Len(names) |->
                           [id |-> 10 * i + 2, product |-> 10 * i]]]

UsagePairs(n) ==
    {[relating |-> 10 * i + 1, related |-> 10 * j + 1] : i, j \in 1..n}

\* Annotations #101, #102 with the given texts, REPRESENTATION #201 holding
\* items, PROPERTY_DEFINITION_REPRESENTATION (#301, #201), and
\* PROPERTY_DEFINITION #301 -> prod_def.
Annotated(doc, texts, items, prod_def) ==
    [doc EXCEPT
        !.annotations = [i \in 1..Len(texts) |->
                            [id |-> 100 + i, name |-> texts[i].name,
                             description |-> texts[i].description]],
        !.representations = << [id |-> 201, items |-> items] >>,
        !.prop_def_reprs = << [prop_def |-> 301, repr |-> 201] >>,
        !.prop_defs = << [id |-> 301, prod_def |-> prod_def] >>]

\* an auxiliary document of one product carrying the given linked annotations
AuxDoc(texts) ==
    IF texts = <<>> THEN ProductChain(<<T_A>>)
    ELSE Annotated(ProductChain(<<T_A>>), texts,
                   [i \in 1..Len(texts) |-> 100 + i], 11)

TreeNames == <<T_R, T_A, T_B>>
ClassNames == {T_M6_Screw, T_Bracket, T_Festo, T_Motor_Unit, T_AB_1234, T_K12345}
ReservedNames == {L_Type, L_Volume, T_Bracket}
TypeNote == [name |-> L_Type, description |-> T_A]
TypeRemark == [name |-> L_Type, description |-> T_B]
VolumeNote == [name |-> L_Volume, description |-> T_2_kg]
ReprItems == {<<101>>, <<101, 101>>, <<101, 102>>}
FirstAuxContents == {<<Torque>>, <<Torque, Mass>>, <<Torque, Torque>>}
SecondAuxContents == {<<>>, <<Torque>>, <<Mass>>}
ClientLists == {<<1>>, <<2>>, <<3>>, <<2, 2>>, <<2, 3>>, <<3, 2>>}
\* the second auxiliary document: readable with the given annotations, or
\* one that load_file_content cannot read
SecondAuxDocs ==
    {AuxDoc(c3) : c3 \in SecondAuxContents}
        \cup {[AuxDoc(<<Mass>>) EXCEPT !.readable = FALSE]}
\* what find_step_files returns: the files in either order, or without a
\* file that a client passes to the supplementer only after parse_batch
DiscoveredLists == {<<1, 2, 3>>, <<3, 2, 1>>, <<1, 3>>}

InitParser ==
    /\ enable_annotation_fallback = FALSE
    /\ all_components = <<>> /\ assembly_relationships = <<>>
    /\ standard_parts = {} /\ component_name_index = <<>>
    /\ processed_files = <<>> /\ annotation_files = <<>>
    /\ assembly_tree = NoNode /\ virtual_children = <<>>
    /\ pc = "start" /\ lastOp = [op |-> "none", files |-> <<>>] /\ passed = {}
    /\ extra_calls = 0
    /\ used_ids = {} /\ calls = <<>> /\ emitted = <<>>

\* three products and every sequence of usages between them
InitTree ==
    \E us \in SeqsUpTo(UsagePairs(3), MaxUsages) :
        /\ fs = << [name |-> F_main,
                    doc |-> [ProductChain(TreeNames) EXCEPT !.usages = us]] >>
        /\ main_assembly_file = "present"
        /\ step_files = <<1>>
        /\ extract_root_geometry = FALSE

\* two products of every name, at most one usage, the first product with or
\* without an annotation whose text holds a keyword
InitNames ==
    \E n1 \in ClassNames, n2 \in ClassNames, us \in SeqsUpTo(UsagePairs(2), 1),
       texts \in {<<>>, <<[name |-> T_Torque, description |-> T_M6_Screw]>>} :
        /\ fs = << [name |-> F_main,
                    doc |-> [(IF texts = <<>> THEN ProductChain(<<n1, n2>>)
                              ELSE Annotated(ProductChain(<<n1, n2>>), texts,
                                             <<101>>, 11))
                                EXCEPT !.usages = us]] >>
        /\ main_assembly_file = "present"
        /\ step_files = <<1>>
        /\ extract_root_geometry \in BOOLEAN

\* no primary document, a missing one, an unreadable one, one without
\* products, each beside an auxiliary document
InitFailing ==
    /\ \E doc \in { ProductChain(<<T_Bracket>>),
                     [ProductChain(<<T_Bracket>>) EXCEPT !.readable = FALSE],
                     EmptyDoc } :
          fs = << [name |-> F_main, doc |-> doc],
                  [name |-> F_Bracket_1, doc |-> AuxDoc(<<Torque>>)] >>
    /\ main_assembly_file \in {"none", "missing", "present"}
    /\ step_files = <<1, 2>>
    /\ extract_root_geometry = TRUE

\* two products and up to two annotations of the first, named like reserved
\* labels of the writer or not
InitReserved ==
    \E n1 \in ReservedNames, n2 \in ReservedNames,
       us \in SeqsUpTo(UsagePairs(2), 1),
       texts \in {<<>>, <<TypeNote, TypeRemark>>, <<TypeNote, VolumeNote>>},
       author \in {<<>>, T_A} :
        /\ fs = << [name |-> F_main,
                    doc |-> [(IF texts = <<>> THEN ProductChain(<<n1, n2>>)
                              ELSE Annotated(ProductChain(<<n1, n2>>), texts,
                                             <<101, 102>>, 11))
                                EXCEPT !.usages = us, !.author = author,
                                       !.organization = author]] >>
        /\ main_assembly_file = "present"
        /\ step_files = <<1>>
        /\ extract_root_geometry = FALSE

\* up to MaxProducts PRODUCT statements whose native ids are in any order
\* and may repeat, and at most one usage
InitIds ==
    \E ids \in SeqsUpTo({10, 20, 30}, MaxProducts),
       us \in SeqsUpTo(UsagePairs(2), 1) :
        /\ fs = << [name |-> F_main,
                    doc |-> [ProductChain(TreeNames) EXCEPT
                                !.products =
                                    [i \in 1..Len(ids) |->
                                        [id |-> ids[i],
                                         name |-> TreeNames[((i - 1) % 3) + 1],
                                         description |-> <<>>]],
                                !.usages = us]] >>
        /\ main_assembly_file = "present"
        /\ step_files = <<1>>
        /\ extract_root_geometry = FALSE

\* products #10 and #20 with whole chains (#11, #21), PRODUCT_DEFINITION #31
\* whose formation #32 is not in the document, PRODUCT_DEFINITION #41 whose
\* formation #42 names #90, which is no PRODUCT, and no PRODUCT_DEFINITION #51
BrokenChains ==
    [ProductChain(<<T_R, T_A>>) EXCEPT
        !.prod_defs = @ \o << [id |-> 31, formation |-> 32],
                              [id |-> 41, formation |-> 42] >>,
        !.formations = @ \o << [id |-> 42, product |-> 90] >>]
ChainUsagePairs ==
    { [relating |-> 11, related |-> 21], [relating |-> 21, related |-> 11],
      [relating |-> 31, related |-> 21], [relating |-> 11, related |-> 31],
      [relating |-> 41, related |-> 21], [relating |-> 11, related |-> 41],
      [relating |-> 51, related |-> 21], [relating |-> 11, related |-> 51],
      [relating |-> 31, related |-> 41] }

\* every sequence of usages over whole and broken chains
InitChains ==
    \E us \in SeqsUpTo(ChainUsagePairs, MaxChainUsages) :
        /\ fs = << [name |-> F_main, doc |-> [BrokenChains EXCEPT !.usages = us]] >>
        /\ main_assembly_file = "present"
        /\ step_files = <<1>>
        /\ extract_root_geometry = FALSE

\* products Bracket #10 and Housing #20; annotation #101 named like the
\* first product and annotation #102; REPRESENTATION #201 and #202;
\* PROPERTY_DEFINITION #301 and #302; every sequence of up to MaxPdrs
\* PROPERTY_DEFINITION_REPRESENTATION statements between them
BracketNote == [name |-> T_Bracket, description |-> T_10_Nm]
PdrPairs == { [prop_def |-> d, repr |-> r] : d \in {301, 302}, r \in {201, 202} }
InitLinks ==
    \E items \in {<<101>>, <<101, 102>>}, prod_def \in {11, 99},
       pdrs \in SeqsUpTo(PdrPairs, MaxPdrs) :
        /\ fs = << [name |-> F_main,
                    doc |-> [Annotated(ProductChain(<<T_Bracket, T_Housing>>),
                                       <<BracketNote, Torque>>, items, prod_def)
                                EXCEPT
                                  !.representations =
                                      Append(@, [id |-> 202, items |-> <<102>>]),
                                  !.prop_defs =
                                      Append(@, [id |-> 302, prod_def |-> 21]),
                                  !.prop_def_reprs = pdrs]] >>
        /\ main_assembly_file = "present"
        /\ step_files = <<1>>
        /\ extract_root_geometry = FALSE

\* a primary document of two products, the second possibly without a name,
\* and two annotations, the first named like the first product, named
\* otherwise or without a name, and linked by its chain to the first product,
\* to the second, or to none
EmptyNote == [name |-> <<>>, description |-> T_10_Nm]
InitFallback ==
    /\ InitParser
    /\ \E second \in {T_Housing, <<>>}, a1 \in {BracketNote, Torque, EmptyNote},
          a2 \in {Torque, Mass}, items \in {<<101>>, <<101, 102>>},
          prod_def \in {11, 21, 99} :
        fs = << [name |-> F_main,
                 doc |-> Annotated(ProductChain(<<T_Bracket, second>>),
                                   <<a1, a2>>, items, prod_def)] >>
    /\ main_assembly_file = "present"
    /\ step_files = <<1>>
    /\ extract_root_geometry = FALSE

Init == InitParser /\ (InitNames \/ InitReserved \/ InitFailing \/ InitTree)

\* a primary document with annotations and two auxiliary documents
InitSupp ==
    /\ InitParser
    /\ \E second \in {T_Housing, T_BRACKET_2}, a2 \in {Torque, Mass},
          items \in ReprItems, prod_def \in {11, 99},
          us \in SeqsUpTo({[relating |-> 11, related |-> 21]}, 1),
          c2 \in FirstAuxContents, d3 \in SecondAuxDocs, n3 \in {F_bracket, F_Other} :
        fs = << [name |-> F_main,
                 doc |-> [Annotated(ProductChain(<<T_Bracket, second>>),
                                    <<Torque, a2>>, items, prod_def)
                             EXCEPT !.usages = us]],
                [name |-> F_Bracket_1, doc |-> AuxDoc(c2)],
                [name |-> n3, doc |-> d3] >>
    /\ main_assembly_file = "present"
    /\ step_files \in DiscoveredLists
    /\ extract_root_geometry = FALSE

AllocLabels ==
    { <<"T","y","p","e">>, <<"P","r","o","d","u","c","t">>, T_A,
      <<"A","-","1">>, <<"A","_","1">>,
      <<"P","r","o","d","u","c","t","_","I","D">>, <<>> }
AllocSuffixes == { <<>>, <<"I","D">>, <<"1">> }

\* labels as create_property passes them, without a context token
T_Aussenring_1 == <<"A","u",SharpS,"e","n","r","i","n","g","-","1">>
T_Aussenring == <<"A","u","s","s","e","n","r","i","n","g">>
T_Au_enring_1 == <<"A","u","_","e","n","r","i","n","g","_","1">>
T_Ty_pe == <<"T","y",".","p","e">>
PropertyLabels ==
    { T_Aussenring_1, T_Aussenring, T_Au_enring_1, L_Type, T_Ty_pe,
      <<EAcute, "a">>, <<"1","A">>, <<SharpS>>, <<>> }

InitAlloc ==
    /\ InitParser
    /\ fs = <<>> /\ main_assembly_file = "none" /\ step_files = <<>>
    /\ extract_root_geometry = FALSE

----------------------------------------------------------------------------
(* Operations *)

\* parse_batch that takes the first file found when none is designated
parse_batch_main_first_file ==
    /\ pc = "start"
    /\ lastOp' = [op |-> "process_main_assembly", files |-> <<>>]
    /\ IF step_files = <<>> \/ ~fs[1].doc.readable
       THEN /\ pc' = "failed"
            /\ UNCHANGED parserVars
       ELSE \E r \in {process_main_assembly(fs[1].doc, 1, enable_annotation_fallback)} :
               /\ all_components' = r.all_components
               /\ assembly_relationships' = assembly_relationships \o r.assembly_relationships
               /\ standard_parts' = r.standard_parts
               /\ component_name_index' = r.component_name_index
               /\ processed_files' = Append(processed_files, 1)
               /\ pc' = "supplement"
               /\ UNCHANGED <<annotation_files, assembly_tree, virtual_children>>
    /\ UNCHANGED <<inputVars, allocVars, passed, extra_calls, emitted>>

\* parse_batch up to and including process_main_assembly (lines 431-449)
parse_batch_main ==
    /\ pc = "start"
    /\ lastOp' = [op |-> "process_main_assembly", files |-> <<>>]
    /\ IF \/ step_files = <<>>
          \/ main_assembly_file # "present"
          \/ ~fs[1].doc.readable
       THEN /\ pc' = "failed"
            /\ UNCHANGED parserVars
       ELSE \E r \in {process_main_assembly(fs[1].doc, 1, enable_annotation_fallback)} :
               /\ all_components' = r.all_components
               /\ assembly_relationships' = assembly_relationships \o r.assembly_relationships
               /\ standard_parts' = r.standard_parts
               /\ component_name_index' = r.component_name_index
               /\ processed_files' = Append(processed_files, 1)
               /\ pc' = "supplement"
               /\ UNCHANGED <<annotation_files, assembly_tree, virtual_children>>
    /\ UNCHANGED <<inputVars, allocVars, passed, extra_calls, emitted>>

\* the supplementer run on a list of files
supplement(files) ==
    \E st \in {supplement_annotations_from_files(
                    [comps |-> all_components, files |-> annotation_files],
                    files, fs, main_assembly_file, component_name_index,
                    assembly_tree, enable_annotation_fallback)} :
       /\ all_components' = st.comps
       /\ annotation_files' = st.files
       /\ lastOp' = [op |-> "supplement", files |-> files]
       /\ passed' = passed \cup Range(files)
       /\ UNCHANGED <<assembly_relationships, standard_parts, component_name_index,
                      processed_files, assembly_tree, virtual_children,
                      inputVars, allocVars, emitted>>

\* parse_batch line 444
parse_batch_supplement ==
    /\ pc = "supplement"
    /\ supplement(step_files)
    /\ pc' = "build"
    /\ UNCHANGED extra_calls

\* extract_geometry_info_for_component: what the measurement of the root's
\* file leaves in geometry_info (nothing when the shape is null or the
\* kernel raises)
GeometryOutcomes ==
    { NoGeometry,
      [measured |-> TRUE, volume |-> 1, surface_area |-> 1],
      [measured |-> TRUE, volume |-> 0, surface_area |-> 0] }

\* parse_batch lines 450-464
\* the build step that measures every component of the tree
parse_batch_build_measure_all ==
    /\ pc = "build"
    /\ \E b \in {build_assembly_tree(all_components, assembly_relationships)} :
          /\ \E geom \in (IF extract_root_geometry
                          THEN GeometryOutcomes ELSE {NoGeometry}) :
                all_components' =
                    [c \in 1..Len(b.comps) |->
                        IF geom.measured
                        THEN [b.comps[c] EXCEPT !.geometry_info = geom]
                        ELSE b.comps[c]]
          /\ assembly_tree' = b.tree
          /\ virtual_children' = b.virtual
    /\ pc' = "done"
    /\ lastOp' = [op |-> "build_assembly_tree", files |-> <<>>]
    /\ UNCHANGED <<assembly_relationships, standard_parts, component_name_index,
                   processed_files, annotation_files, inputVars, allocVars,
                   passed, extra_calls, emitted>>

parse_batch_build ==
    /\ pc = "build"
    /\ \E b \in {build_assembly_tree(all_components, assembly_relationships)} :
          /\ \E geom \in (IF extract_root_geometry /\ b.tree # VirtualRoot
                          THEN GeometryOutcomes ELSE {NoGeometry}) :
                all_components' =
                    IF geom.measured
                    THEN [b.comps EXCEPT ![b.tree].geometry_info = geom]
                    ELSE b.comps
          /\ assembly_tree' = b.tree
          /\ virtual_children' = b.virtual
    /\ pc' = "done"
    /\ lastOp' = [op |-> "build_assembly_tree", files |-> <<>>]
    /\ UNCHANGED <<assembly_relationships, standard_parts, component_name_index,
                   processed_files, annotation_files, inputVars, allocVars,
                   passed, extra_calls, emitted>>

\* a further supplement_annotations_from_files call on the finished parser
client_supplement ==
    /\ pc = "done"
    /\ extra_calls < MaxExtraCalls
    /\ \E files \in ClientLists :
          /\ \A i \in 1..Len(files) : files[i] <= Len(fs)
          /\ supplement(files)
    /\ extra_calls' = extra_calls + 1
    /\ UNCHANGED pc

\* one get_unique_id call on the BatchAASFromSTP instance
call_get_unique_id ==
    /\ Len(calls) < MaxCalls
    /\ \E base_id \in AllocLabels, context_suffix \in AllocSuffixes :
          \E r \in {get_unique_id(base_id, context_suffix, used_ids)} :
             /\ used_ids' = r.used
             /\ calls' = Append(calls, [base_id |-> base_id,
                                        context_suffix |-> context_suffix,
                                        raised |-> r.raised, id |-> r.id])
    /\ UNCHANGED <<inputVars, parserVars, pc, lastOp, passed, extra_calls, emitted>>

\* main after a successful parse_batch: create_aas on a fresh BatchAASFromSTP;
\* the submodel is written, or the walk raises and nothing is written
create_aas ==
    /\ pc = "done"
    /\ extra_calls = 0
    /\ \E w \in {create_assembly_submodel(
                    [comps |-> all_components, standard_parts |-> standard_parts,
                     tree |-> assembly_tree, virtual |-> virtual_children,
                     processed_files |-> processed_files],
                    used_ids)} :
          /\ pc' = IF w.raised THEN "crashed" ELSE "written"
          /\ emitted' = IF w.raised THEN <<>> ELSE w.out
          /\ used_ids' = w.used
    /\ lastOp' = [op |-> "create_aas", files |-> <<>>]
    /\ UNCHANGED <<inputVars, parserVars, calls, passed, extra_calls>>

\* one create_property: get_unique_id without a context token (line 66)
call_create_property ==
    /\ Len(calls) < MaxCalls
    /\ \E id_short \in PropertyLabels :
          \E r \in {get_unique_id(id_short, <<>>, used_ids)} :
             /\ used_ids' = r.used
             /\ calls' = Append(calls, [base_id |-> id_short,
                                        context_suffix |-> <<>>,
                                        raised |-> r.raised, id |-> r.id])
    /\ UNCHANGED <<inputVars, parserVars, pc, lastOp, passed, extra_calls, emitted>>

\* a client enables the substring fallback of the parser it constructed,
\* before it calls parse_batch
set_enable_annotation_fallback ==
    /\ pc = "start" /\ ~enable_annotation_fallback
    /\ enable_annotation_fallback' = TRUE
    /\ UNCHANGED <<fs, main_assembly_file, step_files, extract_root_geometry,
                   parserVars, allocVars, pc, lastOp, passed, extra_calls, emitted>>

Next ==
    \/ parse_batch_main
    \/ parse_batch_supplement
    \/ parse_batch_build
    \/ client_supplement
    \/ create_aas

NextAlloc == call_get_unique_id
NextLabels == call_create_property

Spec == Init /\ [][Next]_vars
SpecSupp == InitSupp /\ [][Next]_vars
SpecAlloc == InitAlloc /\ [][NextAlloc]_vars
SpecLabels == InitAlloc /\ [][NextLabels]_vars
\* the documents whose identifiers, chains and links the resolution runs on
InitResolve == InitParser /\ (InitIds \/ InitChains \/ InitLinks)
SpecResolve == InitResolve /\ [][Next]_vars
NextFallback == set_enable_annotation_fallback \/ Next
SpecFallback == InitFallback /\ [][NextFallback]_vars
----------------------------------------------------------------------------
(* The tree as the AAS writer walks it (create_component_smc) *)

Built == pc = "done"
Registered == 1..Len(all_components)

ChildrenOf(n) ==
    IF n = VirtualRoot THEN virtual_children ELSE all_components[n].children

\* the nodes reached from the nodes of S through one or more children links
RECURSIVE ReachFrom(_, _)
ReachFrom(frontier, seen) ==
    LET next == UNION {Range(ChildrenOf(n)) : n \in frontier}
    IN IF next \subseteq seen THEN seen ELSE ReachFrom(next \ seen, seen \cup next)
Descendants(n) == ReachFrom({n}, {})
TreeNodes == {assembly_tree} \cup Descendants(assembly_tree)

\* how often component c occurs in the children lists of all nodes
Owners(c) ==
    Count(c, virtual_children)
    + Cardinality(UNION {{<<n, i>> : i \in {k \in 1..Len(all_components[n].children) :
                                               all_components[n].children[k] = c}} :
                         n \in Registered})

\* the component registered for a native product id
ComponentOf(native) ==
    CHOOSE c \in Registered : all_components[c].original_product_id = native
EdgeParents == {ComponentOf(assembly_relationships[i].parent_product_id) :
                   i \in 1..Len(assembly_relationships)}
EdgeChildren == {ComponentOf(assembly_relationships[i].child_product_id) :
                    i \in 1..Len(assembly_relationships)}
\* the parent named by the first edge, in document order, that has child c
FirstParent(c) ==
    LET first == CHOOSE i \in 1..Len(assembly_relationships) :
                    /\ ComponentOf(assembly_relationships[i].child_product_id) = c
                    /\ \A j \in 1..(i - 1) :
                          ComponentOf(assembly_relationships[j].child_product_id) # c
    IN ComponentOf(assembly_relationships[first].parent_product_id)

\* C1: after build_assembly_tree no node reachable from assembly_tree is its
\* own ancestor.
C1_TreeAcyclic ==
    Built => \A n \in TreeNodes : n \notin Descendants(n)

\* C2: the first edge in document order that names a child decides its only
\* parent: the child's parent is that node and no other node lists the child.
C2_FirstEdgeWins ==
    Built =>
        \A c \in EdgeChildren :
            /\ all_components[c].parent = FirstParent(c)
            /\ InSeq(c, all_components[FirstParent(c)].children)
            /\ \A n \in Registered \cup {VirtualRoot} :
                  InSeq(c, ChildrenOf(n)) => n = FirstParent(c)

\* C3: no component occurs more than once in the children lists of all nodes
\* taken together.
C3_SingleOwner ==
    Built => \A c \in Registered : Owners(c) <= 1

\* C4: after a successful parse_batch every registered component is reachable
\* from assembly_tree.
C4_FullyLinked ==
    Built => \A c \in Registered : c \in TreeNodes

\* C5: a unique component that is a parent and never a child is the root;
\* with none or several, the root is the virtual node and its children are
\* exactly the components that are the child of no edge.
C5_RootDetermination ==
    Built =>
        LET candidates == EdgeParents \ EdgeChildren
        IN IF Cardinality(candidates) = 1
           THEN assembly_tree \in candidates
           ELSE /\ assembly_tree = VirtualRoot
                /\ Range(virtual_children) = Registered \ EdgeChildren
                /\ \A c \in Registered : Count(c, virtual_children) <= 1

----------------------------------------------------------------------------
(* Classification *)

Registering == pc \in {"supplement", "build", "done"}

\* the texts the classifier reads for component c: the name and description
\* of its product and of the annotations the primary document links to it
ProductInfoOf(c) ==
    DictGet(extract_products_from_content(fs[1].doc),
            all_components[c].original_product_id)
PrimaryAnnotationsOf(c) ==
    LET products == extract_products_from_content(fs[1].doc)
        pa == link_annotations_to_products_in_content(
                  fs[1].doc, products, extract_annotations_from_content(fs[1].doc),
                  enable_annotation_fallback)
        id == all_components[c].original_product_id
    IN IF DictHas(pa, id) THEN DictGet(pa, id) ELSE <<>>
TextsOf(c) ==
    {ProductInfoOf(c).name, ProductInfoOf(c).description}
    \cup {PrimaryAnnotationsOf(c)[i].name : i \in 1..Len(PrimaryAnnotationsOf(c))}
    \cup {PrimaryAnnotationsOf(c)[i].description : i \in 1..Len(PrimaryAnnotationsOf(c))}
HasKeyword(c) ==
    \E t \in TextsOf(c) : \E k \in Range(standard_keywords) : Contains(Lower(t), k)
HasManufacturer(c) ==
    \E t \in TextsOf(c) : \E m \in Range(manufacturers) : Contains(Lower(t), m)

VirtualRootOwnsAll ==
    /\ assembly_tree = VirtualRoot
    /\ virtual_children = [i \in Registered |-> i]

\* C6 as stated: without a resolved usage edge the root is a virtual node whose
\* children are exactly the registered components, and every component is
\* STANDARD_PART if its text contains a vocabulary keyword and PART otherwise.
C6_KeywordOnly ==
    (Registering /\ assembly_relationships = <<>>) =>
        /\ Built => VirtualRootOwnsAll
        /\ \A c \in Registered :
              all_components[c].node_type =
                  IF HasKeyword(c) THEN "STANDARD_PART" ELSE "PART"

\* C6 amended: without a resolved usage edge the root is a virtual node whose
\* children are exactly the registered components, and every component is
\* STANDARD_PART if its text contains a vocabulary keyword or a manufacturer
\* name, and PART otherwise; none is ASSEMBLY.
C6_KeywordOrManufacturer ==
    (Registering /\ assembly_relationships = <<>>) =>
        /\ Built => VirtualRootOwnsAll
        /\ \A c \in Registered :
              all_components[c].node_type =
                  IF HasKeyword(c) \/ HasManufacturer(c)
                  THEN "STANDARD_PART" ELSE "PART"

\* a finished tree without edges holding "M6 Screw" as STANDARD_PART and
\* "Bracket" as PART under the virtual root
C6_Witness ==
    /\ Built /\ assembly_relationships = <<>> /\ assembly_tree = VirtualRoot
    /\ \E c \in Registered, d \in Registered :
          /\ all_components[c].name = T_M6_Screw
          /\ all_components[c].node_type = "STANDARD_PART"
          /\ all_components[d].name = T_Bracket
          /\ all_components[d].node_type = "PART"
          /\ InSeq(c, virtual_children) /\ InSeq(d, virtual_children)

----------------------------------------------------------------------------
(* Annotations *)

\* C7: no component's annotations list holds the same (name, description)
\* pair twice, in any state after process_main_assembly.
C7_NoDuplicateAnnotations ==
    \A c \in Registered :
        \A i \in 1..Len(all_components[c].annotations) :
            \A j \in 1..Len(all_components[c].annotations) :
                i # j => all_components[c].annotations[i] # all_components[c].annotations[j]

\* the passes of a call that are no repetition: files drops every file that
\* was supplemented before or occurs earlier in the list
RECURSIVE FirstPasses(_, _)
FirstPasses(files, seen) ==
    IF files = <<>> THEN <<>>
    ELSE IF Head(files) \in seen THEN FirstPasses(Tail(files), seen)
         ELSE <<Head(files)>> \o FirstPasses(Tail(files), seen \cup {Head(files)})

AnnotationView(comps) ==
    [c \in 1..Len(comps) |->
        [annotations |-> comps[c].annotations,
         annotation_files |-> comps[c].annotation_files]]

\* C8: a repeated pass over an auxiliary document changes nothing: every
\* supplementer call leaves each component with the annotations and the
\* annotation_files that the call without its repeated passes leaves.
C8_RepeatedPassIsNoOp ==
    [][lastOp'.op = "supplement" /\ (pc' # pc \/ extra_calls' # extra_calls) =>
          AnnotationView(all_components') =
              AnnotationView(supplement_annotations_from_files(
                  [comps |-> all_components, files |-> annotation_files],
                  FirstPasses(lastOp'.files, passed), fs, main_assembly_file,
                  component_name_index, assembly_tree,
                  enable_annotation_fallback).comps)]_vars

\* file 2 was merged into component 1 during parse_batch and then passed again
C8_Witness ==
    /\ lastOp.op = "supplement" /\ lastOp.files = <<2>> /\ extra_calls = 1
    /\ 2 \in passed
    /\ InSeq(2, all_components[1].annotation_files)
    /\ InSeq(Mass, all_components[1].annotations)

\* an auxiliary file whose normalized base name is the index key of c
MatchesComponent(f, c) ==
    /\ ~(main_assembly_file = "present" /\ f = 1)
    /\ LET key == Upper(remove_solidworks_suffix(file_base_name(fs[f].name)))
       IN DictHas(component_name_index, key) /\ DictGet(component_name_index, key) = c
\* the annotations file f contributes
LinkedIn(f) ==
    LET products == extract_products_from_content(fs[f].doc)
    IN Range(all_file_annotations(link_annotations_to_products_in_content(
                 fs[f].doc, products, extract_annotations_from_content(fs[f].doc),
                 enable_annotation_fallback)))

\* C9: two different supplemented documents that match the same component
\* and both contribute one annotation leave exactly one copy of it on the
\* component, and both are listed in its annotation_files.
C9_OneCopyTwoSources ==
    \A c \in Registered : \A f \in passed : \A g \in passed :
        (f # g /\ MatchesComponent(f, c) /\ MatchesComponent(g, c)) =>
            \A a \in LinkedIn(f) \cap LinkedIn(g) :
                /\ Count(a, all_components[c].annotations) = 1
                /\ InSeq(f, all_components[c].annotation_files)
                /\ InSeq(g, all_components[c].annotation_files)

----------------------------------------------------------------------------
(* Identifier allocator *)

\* C10: two identifiers returned by get_unique_id on one instance differ
\* unless both are an exempt label, and every identifier returned that is not
\* exempt was absent from used_ids before its call and is present after it.
C10_ReturnedIdsUnique ==
    [][calls' # calls =>
          LET r == calls'[Len(calls')]
          IN /\ (~r.raised /\ r.id \notin common_props) =>
                    (r.id \notin used_ids /\ r.id \in used_ids')
             /\ \A i \in 1..Len(calls') : \A j \in 1..Len(calls') :
                    (i # j /\ ~calls'[i].raised /\ ~calls'[j].raised
                     /\ calls'[i].id = calls'[j].id) =>
                        calls'[i].id \in common_props]_vars

\* the same label was requested twice and both calls returned an identifier
\* that is not exempt
C10_Witness ==
    \E i \in 1..Len(calls) : \E j \in 1..Len(calls) :
        /\ i < j /\ calls[i].base_id = calls[j].base_id
        /\ ~calls[i].raised /\ ~calls[j].raised
        /\ calls[i].id \notin common_props /\ calls[j].id \notin common_props
        /\ calls[j].context_suffix # <<>>
----------------------------------------------------------------------------
(* The written submodel *)

Written == pc = "written"

Distinct(s) == \A i \in 1..Len(s), j \in 1..Len(s) : i # j => s[i] # s[j]

\* C11: within one emitted collection (the elements of one component, its
\* annotations, its files, its child components) no two elements have the
\* same identifier, also when annotations or sibling components are named
\* like a reserved label
C11_CollectionIdsDistinct ==
    Written => \A k \in 1..Len(emitted) : Distinct(emitted[k].elements)

----------------------------------------------------------------------------
(* Synthetic ids *)

MainProcessed == pc \in {"supplement", "build", "done", "written", "crashed"}

\* the distinct members of a sequence, in the order of their first occurrence
RECURSIVE FirstOccurrences(_)
FirstOccurrences(s) ==
    IF s = <<>> THEN <<>>
    ELSE LET front == FirstOccurrences(SubSeq(s, 1, Len(s) - 1))
         IN IF InSeq(s[Len(s)], front) THEN front ELSE Append(front, s[Len(s)])

\* the number a text of decimal digits denotes
RECURSIVE DecValue(_)
DecValue(digits) ==
    IF digits = <<>> THEN 0
    ELSE 10 * DecValue(SubSeq(digits, 1, Len(digits) - 1))
         + IndexIn(digits[Len(digits)], Digits) - 1

\* the document with every native id n renumbered to 1000 - n
NewId(n) == 1000 - n
Renumbered(doc) ==
    [doc EXCEPT
        !.products = [i \in 1..Len(@) |-> [@[i] EXCEPT !.id = NewId(@)]],
        !.annotations = [i \in 1..Len(@) |-> [@[i] EXCEPT !.id = NewId(@)]],
        !.representations =
            [i \in 1..Len(@) |->
                [id |-> NewId(@[i].id),
                 items |-> [j \in 1..Len(@[i].items) |-> NewId(@[i].items[j])]]],
        !.prop_def_reprs =
            [i \in 1..Len(@) |->
                [prop_def |-> NewId(@[i].prop_def), repr |-> NewId(@[i].repr)]],
        !.prop_defs =
            [i \in 1..Len(@) |->
                [id |-> NewId(@[i].id), prod_def |-> NewId(@[i].prod_def)]],
        !.prod_defs =
            [i \in 1..Len(@) |->
                [id |-> NewId(@[i].id), formation |-> NewId(@[i].formation)]],
        !.formations =
            [i \in 1..Len(@) |->
                [id |-> NewId(@[i].id), product |-> NewId(@[i].product)]],
        !.usages =
            [i \in 1..Len(@) |->
                [relating |-> NewId(@[i].relating), related |-> NewId(@[i].related)]]]

NativeIds == FirstOccurrences([i \in 1..Len(fs[1].doc.products) |->
                                  fs[1].doc.products[i].id])

\* C12: the k-th distinct product of the primary document, in document
\* order, is the component with synthetic id "P" and counter value k; the
\* synthetic ids are pairwise distinct and are the same when every native id
\* of the document is renumbered
C12_SyntheticIdsCount ==
    MainProcessed =>
        /\ Len(all_components) = Len(NativeIds)
        /\ \A k \in 1..Len(all_components) :
              /\ all_components[k].original_product_id = NativeIds[k]
              /\ Head(all_components[k].product_id) = "P"
              /\ DecValue(Tail(all_components[k].product_id)) = k
        /\ \A j \in 1..Len(all_components), k \in 1..Len(all_components) :
              j # k => all_components[j].product_id # all_components[k].product_id
        /\ LET renumbered ==
                   process_main_assembly(Renumbered(fs[1].doc), 1,
                                         enable_annotation_fallback).all_components
           IN /\ Len(renumbered) = Len(all_components)
              /\ \A k \in 1..Len(renumbered) :
                    renumbered[k].product_id = all_components[k].product_id

\* three PRODUCT statements, the third repeating the native id of the
\* first, and the first native id above the second
C12_Witness ==
    /\ MainProcessed
    /\ Len(fs[1].doc.products) = 3
    /\ Len(all_components) = 2
    /\ all_components[1].original_product_id > all_components[2].original_product_id

----------------------------------------------------------------------------
(* Sanitized identifiers *)

Returned == {i \in 1..Len(calls) : ~calls[i].raised}

AsciiSafe(id) == \A k \in 1..Len(id) : IsUpperAZ(id[k]) \/ IsLowerAZ(id[k])
                                        \/ IsDigit(id[k]) \/ id[k] = "_"

\* C13: every returned identifier consists of ASCII letters,
\* digits and underscore, and two different labels requested in one run
\* receive two distinct identifiers
C13_AsciiSafeAndDistinct ==
    /\ \A i \in Returned : AsciiSafe(calls[i].id)
    /\ \A i \in Returned, j \in Returned :
          calls[i].base_id # calls[j].base_id => calls[i].id # calls[j].id

----------------------------------------------------------------------------
(* Failure of parse_batch *)

\* parse_batch has returned True
Succeeded == pc \in {"done", "written", "crashed"}

\* the designated primary document exists and is readable
PrimaryReadable ==
    /\ step_files # <<>>
    /\ main_assembly_file = "present"
    /\ fs[1].doc.readable

\* C14: when the primary document is readable but holds no extractable
\* product, parse_batch does not return success and assembly_tree stays
\* unset: not even a virtual root is produced
C14_NoProductsFails ==
    (PrimaryReadable /\ extract_products_from_content(fs[1].doc) = <<>>)
        => (~Succeeded /\ assembly_tree = NoNode)

\* C15: when no primary document is designated, or the designated one does
\* not exist or cannot be read, parse_batch fails with assembly_tree unset
\* and all_components empty, no auxiliary document is handed to the
\* supplementer, and no other document is processed as primary
C15_NoPrimaryFails ==
    (pc # "start" /\ ~PrimaryReadable) =>
        /\ pc = "failed"
        /\ assembly_tree = NoNode
        /\ all_components = <<>>
        /\ processed_files = <<>>
        /\ passed = {} /\ annotation_files = <<>>

\* parse_batch has failed on a directory that holds a readable document
\* with a product and an auxiliary document, none of them designated
C15_Witness ==
    /\ pc = "failed"
    /\ main_assembly_file = "none"
    /\ Len(fs) = 2
    /\ fs[1].doc.readable
    /\ extract_products_from_content(fs[1].doc) # <<>>

----------------------------------------------------------------------------
(* Order of the phases of parse_batch *)

\* the auxiliary documents already read by the supplementer: every file
\* handed to it except the primary document, which it skips
AuxiliaryRead == {f \in passed : ~(main_assembly_file = "present" /\ f = 1)}

\* C16: in every run of parse_batch the tree skeleton of the primary
\* document (build_assembly_tree) is complete before the first auxiliary
\* document is read by the supplementer
C16_TreeBeforeAuxiliary ==
    AuxiliaryRead # {} => assembly_tree # NoNode

----------------------------------------------------------------------------
(* Node kinds *)

IsParent(c) ==
    \E i \in 1..Len(assembly_relationships) :
        assembly_relationships[i].parent_product_id =
            all_components[c].original_product_id

\* a text of the component, as written in the document, matches one of the
\* two catalog-number patterns
HasCatalogNumber(c) ==
    \E t \in TextsOf(c) : matches_catalog_number(t) \/ matches_part_number(t)

\* C17: a registered component is ASSEMBLY if its product is the parent of a
\* resolved edge, whatever its text holds, and is then not in standard_parts;
\* otherwise STANDARD_PART if its name, description or annotation text holds
\* a vocabulary keyword or matches a manufacturer or catalog pattern;
\* otherwise PART
C17_NodeKinds ==
    MainProcessed =>
        \A c \in Registered :
            /\ all_components[c].node_type =
                  IF IsParent(c) THEN "ASSEMBLY"
                  ELSE IF HasKeyword(c) \/ HasManufacturer(c) \/ HasCatalogNumber(c)
                       THEN "STANDARD_PART" ELSE "PART"
            /\ IsParent(c) => c \notin standard_parts

----------------------------------------------------------------------------
(* Resolution of the chains of the primary document *)

PrimaryDoc == fs[1].doc

\* PRODUCT_DEFINITION pd leads over its formation to the extracted product p
Resolves(pd, p) ==
    \E i \in 1..Len(PrimaryDoc.prod_defs), j \in 1..Len(PrimaryDoc.formations) :
        /\ PrimaryDoc.prod_defs[i].id = pd
        /\ PrimaryDoc.formations[j].id = PrimaryDoc.prod_defs[i].formation
        /\ PrimaryDoc.formations[j].product = p
        /\ \E k \in 1..Len(PrimaryDoc.products) : PrimaryDoc.products[k].id = p
ProductIds == {PrimaryDoc.products[k].id : k \in 1..Len(PrimaryDoc.products)}
Resolving(pd) == \E p \in ProductIds : Resolves(pd, p)
ProductOf(pd) == CHOOSE p \in ProductIds : Resolves(pd, p)

\* C18: assembly_relationships holds an edge for exactly the usages whose
\* relating and related product-definition both resolve over a formation to
\* an extracted product, in the order of the usages: a usage with a broken
\* hop adds no edge and the usages after it are still processed
C18_EdgesOfResolvedUsages ==
    MainProcessed =>
        LET resolved == SelectSeq(PrimaryDoc.usages,
                            LAMBDA u : Resolving(u.relating) /\ Resolving(u.related))
        IN assembly_relationships =
               [i \in 1..Len(resolved) |->
                   [parent_product_id |-> ProductOf(resolved[i].relating),
                    child_product_id |-> ProductOf(resolved[i].related)]]

\* a usage with a broken hop was followed by a whole one, which gave the
\* only edge
C18_Witness ==
    /\ MainProcessed
    /\ Len(PrimaryDoc.usages) = 2
    /\ ~(Resolving(PrimaryDoc.usages[1].relating)
         /\ Resolving(PrimaryDoc.usages[1].related))
    /\ Len(assembly_relationships) = 1

\* annotation statement a is an item of a representation that a
\* property-definition-representation joins to a property definition whose
\* product-definition resolves to the extracted product p
ChainTo(a, p) ==
    \E r \in 1..Len(PrimaryDoc.representations),
       q \in 1..Len(PrimaryDoc.prop_def_reprs),
       d \in 1..Len(PrimaryDoc.prop_defs) :
        /\ InSeq(a, PrimaryDoc.representations[r].items)
        /\ PrimaryDoc.prop_def_reprs[q].repr = PrimaryDoc.representations[r].id
        /\ PrimaryDoc.prop_def_reprs[q].prop_def = PrimaryDoc.prop_defs[d].id
        /\ Resolves(PrimaryDoc.prop_defs[d].prod_def, p)

\* the annotation statements of the primary document, and the entry the
\* extractor makes of one
AnnotationIds == {PrimaryDoc.annotations[i].id : i \in 1..Len(PrimaryDoc.annotations)}
AnnotationText(a) == DictGet(extract_annotations_from_content(PrimaryDoc), a)

\* C19: with the fallback disabled, every annotation in the list of a
\* product of the primary document is there by a complete chain
\* representation, property-definition-representation, property
\* definition, product-definition, formation; a name alike never links
C19_LinkedOnlyByChain ==
    (MainProcessed /\ ~enable_annotation_fallback) =>
        \A c \in Registered : \A i \in 1..Len(all_components[c].annotations) :
            \E a \in AnnotationIds :
                /\ AnnotationText(a) = all_components[c].annotations[i]
                /\ ChainTo(a, all_components[c].original_product_id)

\* the first product has the name of an annotation and no annotation, while
\* the second product has one by its chain
C19_Witness ==
    /\ MainProcessed
    /\ Len(all_components) = 2
    /\ \E a \in AnnotationIds : AnnotationText(a).name = all_components[1].name
    /\ all_components[1].annotations = <<>>
    /\ all_components[2].annotations # <<>>

\* C20: every annotation with a complete chain to an extracted product of
\* the primary document is in the annotation list of that product, also when
\* one representation is referenced by two
\* property-definition-representations that lead to two products
C20_EveryChainLinked ==
    MainProcessed =>
        \A c \in Registered : \A a \in AnnotationIds :
            ChainTo(a, all_components[c].original_product_id)
                => InSeq(AnnotationText(a), all_components[c].annotations)


----------------------------------------------------------------------------
(* Name index and supplementer *)

NormalizedName(c) == Upper(remove_solidworks_suffix(all_components[c].name))
FileKey(f) == Upper(remove_solidworks_suffix(file_base_name(fs[f].name)))
\* an auxiliary file of the directory that is readable and contributes at
\* least one linked annotation
Contributes(f) ==
    /\ ~(main_assembly_file = "present" /\ f = 1)
    /\ fs[f].doc.readable
    /\ LinkedIn(f) # {}

\* C21: the name index maps each normalized name to the first-registered
\* component with that name, and a supplementer call over an auxiliary
\* document whose normalized base filename is that key merges the document's
\* annotations into that first component and leaves the later components
\* with the same normalized name unchanged.
C21_FirstComponentOnly ==
    [][lastOp'.op = "supplement" /\ (pc' # pc \/ extra_calls' # extra_calls) =>
          /\ \A c \in Registered :
                /\ DictHas(component_name_index, NormalizedName(c))
                /\ DictGet(component_name_index, NormalizedName(c)) <= c
                /\ NormalizedName(DictGet(component_name_index, NormalizedName(c)))
                       = NormalizedName(c)
          /\ \A f \in Range(lastOp'.files) : \A c \in Registered :
                (Contributes(f) /\ MatchesComponent(f, c)) =>
                    /\ LinkedIn(f) \subseteq Range(all_components'[c].annotations)
                    /\ InSeq(f, all_components'[c].annotation_files)
                    /\ \A d \in Registered :
                          (d # c /\ NormalizedName(d) = NormalizedName(c)) =>
                              AnnotationView(all_components')[d]
                                  = AnnotationView(all_components)[d]]_vars


\* an auxiliary document that is unreadable, has no linked annotation (an
\* empty one included) or whose normalized filename is no key of the index
Inert(f) ==
    /\ ~(main_assembly_file = "present" /\ f = 1)
    /\ \/ ~fs[f].doc.readable
       \/ LinkedIn(f) = {}
       \/ ~DictHas(component_name_index, FileKey(f))
NotInert(f) == ~Inert(f)

\* C22: an auxiliary document that is unreadable, empty, without linked
\* annotation or without index entry changes no component's annotations or
\* annotation_files and stops nothing: every supplementer call leaves what
\* the call over the other documents of its list leaves, and the call made
\* by parse_batch is followed by the tree build.
C22_InertDocumentsSkipped ==
    [][lastOp'.op = "supplement" /\ (pc' # pc \/ extra_calls' # extra_calls) =>
          /\ AnnotationView(all_components') =
                 AnnotationView(supplement_annotations_from_files(
                     [comps |-> all_components, files |-> annotation_files],
                     SelectSeq(lastOp'.files, NotInert), fs, main_assembly_file,
                     component_name_index, assembly_tree,
                     enable_annotation_fallback).comps)
          /\ (\A f \in Range(lastOp'.files) : Inert(f)) =>
                 AnnotationView(all_components') = AnnotationView(all_components)
          /\ pc = "supplement" => pc' = "build"]_vars

\* parse_batch passed the unreadable or unmatched document 3 before document
\* 2, merged document 2 into Bracket and went on to the tree build
C22_Witness ==
    /\ pc = "build" /\ lastOp.op = "supplement" /\ lastOp.files = <<3, 2, 1>>
    /\ Inert(3)
    /\ (~fs[3].doc.readable \/ fs[3].name = F_Other)
    /\ InSeq(2, all_components[1].annotation_files)
    /\ all_components[1].annotation_files = <<2>>


----------------------------------------------------------------------------
(* Root geometry *)

Measured(comps) == {c \in 1..Len(comps) : comps[c].geometry_info # NoGeometry}

\* C23: geometry_info is non-empty for at most one node, the tree root, and
\* only when that root is a real component of a run that asked for the root
\* geometry; no step sets it on another component, and whatever the
\* measurement gives, the build step completes parse_batch.
C23_GeometryAtRealRootOnly ==
    [][/\ Measured(all_components') \subseteq {assembly_tree'}
       /\ Measured(all_components') # {} =>
              /\ assembly_tree' # VirtualRoot /\ assembly_tree' # NoNode
              /\ extract_root_geometry
       /\ pc = "build" => pc' = "done"]_vars

\* a built tree of several components whose real root was measured
C23_Witness ==
    /\ Built /\ assembly_tree \in Registered
    /\ Len(all_components) >= 2
    /\ Measured(all_components) = {assembly_tree}

\* a run that asked for the root geometry and ended with a virtual root, or
\* with a real root whose measurement failed: nothing is measured
C23_WitnessAbsent ==
    /\ Built /\ extract_root_geometry
    /\ Measured(all_components) = {}
    /\ Len(all_components) >= 2


----------------------------------------------------------------------------
(* Frame of the supplementer *)

IsPrefix(s, t) == Len(s) <= Len(t) /\ SubSeq(t, 1, Len(s)) = s

\* C24: supplement_annotations_from_files changes components only by
\* appending: a call keeps the entries of all_components and of the name
\* index, every component's name, synthetic id and node kind, and the
\* assembly_relationships, and each component's annotation list before the
\* call is a prefix of its list after the call.
C24_SupplementOnlyAppends ==
    [][lastOp'.op = "supplement" /\ (pc' # pc \/ extra_calls' # extra_calls) =>
          /\ Len(all_components') = Len(all_components)
          /\ component_name_index' = component_name_index
          /\ assembly_relationships' = assembly_relationships
          /\ \A c \in Registered :
                /\ all_components'[c].name = all_components[c].name
                /\ all_components'[c].product_id = all_components[c].product_id
                /\ all_components'[c].node_type = all_components[c].node_type
                /\ IsPrefix(all_components[c].annotations,
                            all_components'[c].annotations)]_vars

\* Bracket had ('Torque','10 Nm') from the primary document, and document 2
\* added ('Mass','2 kg') behind it
C24_Witness ==
    /\ lastOp.op = "supplement"
    /\ fs[1].doc.representations[1].items = <<101>>
    /\ fs[1].doc.prop_defs[1].prod_def = 11
    /\ all_components[1].annotations = <<Torque, Mass>>
    /\ InSeq(2, all_components[1].annotation_files)


----------------------------------------------------------------------------
(* Collision protocol of the allocator *)

\* the identifier the protocol gives label clean_id with the context token
\* context_suffix on the ledger used
NumberedFree(clean_id, used) ==
    clean_id \o <<"_">> \o
        Dec(CHOOSE k \in 1..(Cardinality(used) + 1) :
               /\ clean_id \o <<"_">> \o Dec(k) \notin used
               /\ \A j \in 1..(k - 1) : clean_id \o <<"_">> \o Dec(j) \in used)
ProtocolId(clean_id, context_suffix, used) ==
    IF clean_id \notin used THEN clean_id
    ELSE IF /\ context_suffix # <<>>
            /\ clean_id \o <<"_">> \o check_id_short(context_suffix) \notin used
         THEN clean_id \o <<"_">> \o check_id_short(context_suffix)
         ELSE NumberedFree(clean_id, used)

C25_WitnessToken ==
    /\ Len(calls) = 2
    /\ calls[2].base_id = T_A /\ calls[2].context_suffix = <<"I","D">>
    /\ calls[2].id = <<"A","_","I","D">>


----------------------------------------------------------------------------
(* First character of an identifier *)

\* C26: every identifier returned by get_unique_id begins with an ASCII
\* letter: a label that begins with anything else, a letter outside the
\* transliteration table included, is prefixed.
C26_BeginsWithAsciiLetter ==
    \A i \in Returned : IsAsciiLetter(calls[i].id[1])


----------------------------------------------------------------------------
(* Substring fallback *)

\* annotation statement a has no complete chain to an extracted product
Unresolved(a) == \A p \in ProductIds : ~ChainTo(a, p)

\* C27: with the fallback enabled, an annotation is in the list of a product
\* of the primary document by its chain to that product, or it is an
\* annotation that the chain left unresolved and whose non-empty name, or
\* description, holds the non-empty product name or whose name is held by it:
\* a chain-linked annotation is on no other product, and an empty name
\* matches nothing.
C27_FallbackOnlyForUnresolved ==
    (MainProcessed /\ enable_annotation_fallback) =>
        \A c \in Registered : \A i \in 1..Len(all_components[c].annotations) :
            \E a \in AnnotationIds :
                /\ AnnotationText(a) = all_components[c].annotations[i]
                /\ \/ ChainTo(a, all_components[c].original_product_id)
                   \/ /\ Unresolved(a)
                      /\ all_components[c].name # <<>>
                      /\ AnnotationText(a).name # <<>>
                      /\ \/ Contains(Lower(AnnotationText(a).name),
                                     Lower(all_components[c].name))
                         \/ Contains(Lower(AnnotationText(a).description),
                                     Lower(all_components[c].name))
                         \/ Contains(Lower(all_components[c].name),
                                     Lower(AnnotationText(a).name))


----------------------------------------------------------------------------
(* Catalog numbers *)

\* C28: a product that is the parent of no edge, holds no vocabulary keyword
\* and no manufacturer name, and whose name is a catalog number of the
\* classifier's patterns (capital letters, hyphen, digits; or one capital
\* letter and four or more digits) is classified STANDARD_PART.
C28_CatalogNumberIsStandardPart ==
    MainProcessed =>
        \A c \in Registered :
            (/\ ~IsParent(c) /\ ~HasKeyword(c) /\ ~HasManufacturer(c)
             /\ \/ matches_catalog_number(all_components[c].name)
                \/ matches_part_number(all_components[c].name))
                => all_components[c].node_type = "STANDARD_PART"


----------------------------------------------------------------------------
(* Empty label *)

\* C29: get_unique_id never raises: every call returns, and a call for the
\* empty label returns an identifier built from the default label
\* "Component".
C29_EmptyLabelGetsDefault ==
    \A i \in 1..Len(calls) :
        /\ ~calls[i].raised
        /\ calls[i].base_id = <<>> =>
               IsPrefix(<<"C","o","m","p","o","n","e","n","t">>, calls[i].id)


----------------------------------------------------------------------------
(* Order of the auxiliary documents *)

\* the lists that hold the members of files in another order
Orders(files) ==
    {[i \in 1..Len(files) |-> files[p[i]]] :
        p \in {q \in [1..Len(files) -> 1..Len(files)] :
                  \A i \in 1..Len(files) : \A j \in 1..Len(files) :
                      q[i] = q[j] => i = j}}

\* what a component holds, without the order of its lists
SetView(comps) ==
    [c \in 1..Len(comps) |->
        [annotations |-> Range(comps[c].annotations),
         annotation_files |-> Range(comps[c].annotation_files)]]

\* C30: the outcome of a supplementer call does not depend on the order of
\* its documents: the call over any other order of the same list leaves
\* every component with the same set of annotations and the same set of
\* annotation_files.
C30_OrderIndependent ==
    [][lastOp'.op = "supplement" /\ (pc' # pc \/ extra_calls' # extra_calls) =>
          \A files \in Orders(lastOp'.files) :
              SetView(supplement_annotations_from_files(
                          [comps |-> all_components, files |-> annotation_files],
                          files, fs, main_assembly_file, component_name_index,
                          assembly_tree, enable_annotation_fallback).comps)
                  = SetView(all_components')]_vars

\* documents 3 and 2 both matched Bracket, in this order, and contributed
\* different annotations
C30_Witness ==
    /\ lastOp.op = "supplement" /\ lastOp.files = <<3, 2, 1>>
    /\ all_components[1].annotation_files = <<3, 2>>
    /\ LinkedIn(2) # LinkedIn(3)
    /\ LinkedIn(2) \cup LinkedIn(3) \subseteq Range(all_components[1].annotations)

====
